---- MODULE Spec2Model ----
(***************************************************************************)
(* The historical-trackline path of the GPS server (InfluxDB mode),        *)
(* src/gps-server/server-influxdb.js: one ship-socket connection, the      *)
(* queryTrackline branch of its async 'message' handler, the range query   *)
(* queryHistoricalTrackline and the chunked transfer sendTracklineInChunks.*)
(*                                                                         *)
(* Every invocation of the async handler is a task.  A task runs until it  *)
(* awaits (the range query's promise, the 100 ms setTimeout between two    *)
(* chunks); each action below is one such run-to-await step of the single- *)
(* threaded event loop.                                                    *)
(*                                                                         *)
(* `sent` is the sequence of ws.send calls made on the connection, in call *)
(* order.  The fields req and vidx of its entries, the variables           *)
(* `returned` and `closedAt`, and the field `at` of the entries of         *)
(* `queries` are history: the code does not hold them, the properties read *)
(* them.                                                                   *)
(*                                                                         *)
(* Further down: the historical request of the oceanographic server        *)
(* (src/oceanographic-server/server.js, SpecHist), whose sensor samples    *)
(* are correlated with position fixes, and the two resolution planners as  *)
(* functions of the requested span (SpecPlan).                             *)
(***************************************************************************)
EXTENDS Integers, Sequences, FiniteSets, TLC

\* src/gps-server/server-influxdb.js:306
CHUNK_SIZE == 1000

\* Bounds of the model.
MaxRequests == 2      \* queryTrackline messages received on the connection
MaxVehicles == 2      \* vehicles named by the requests of the connection, all together
MaxFullChunks == 1    \* a range query returns at most MaxFullChunks full chunks and one point
MaxTime == 1          \* startTime and endTime are instants 0..MaxTime

Vehicles == {"ship", "rov"}
Times == 0..MaxTime
Requests == 1..MaxRequests

\* data.vehicles: every list of at most MaxVehicles vehicle names (repeats included).
VehicleLists == UNION {[1..n -> Vehicles] : n \in 0..MaxVehicles}

\* The numbers of rows a range query may return: every multiple of the chunk
\* size up to MaxFullChunks chunks, with and without one more row (so: no row,
\* one row, exactly one chunk, one chunk and a row, ...).
PointCounts == {c * CHUNK_SIZE + d : c \in 0..MaxFullChunks, d \in {0, 1}}

\* The rows of a range query that returned n points, in the order the store
\* delivers them (ascending _time): a point is named by its rank in the result.
QueryResult(n) == [j \in 1..n |-> j]

NoRequest == [type |-> "none", vehicles |-> <<>>]

\* What is known of a range query: not completed (or never issued), rejected,
\* or resolved with n rows.
Pending == [outcome |-> "pending", n |-> 0]
Rejected == [outcome |-> "error", n |-> 0]
Resolved(n) == [outcome |-> "rows", n |-> n]

VARIABLES
    readyState,   \* ws.readyState: "OPEN" or "CLOSED"
    sendThrows,   \* whether ws.send throws on the closed socket (drawn at the close)
    reqs,         \* reqs[r]: the r-th queryTrackline message received, or NoRequest
    task,         \* task[r]: the handler invocation for reqs[r]
    timers,       \* pending 100 ms timers, in the order they were set
    sent,         \* the ws.send calls made so far
    queries,      \* the range queries issued so far
    returned,     \* returned[<<r, k>>]: what the query for vehicle k of request r gave
    closedAt      \* Len(sent) when the close event fired, -1 while open

\* The oceanographic server's historical request (src/oceanographic-server/server.js)
VARIABLES
    hist,         \* the 'historical' handler invocation: where it stands, request.sensor,
                  \* whether the query's catch block has logged an error, and (history)
                  \* the queries issued, the queries completed and the sends, in order
    gpsRows,      \* the rows the position query delivered
    sensorRows,   \* the rows the sensor query delivered
    gpsData,      \* the Map gpsData, as its entries in insertion order
    wsSent        \* the ws.send calls made on the oceanographic connection

\* The two resolution planners, applied to one span
VARIABLES
    timeDiff,     \* endTime - startTime of the request, as whole seconds and milliseconds
    planned       \* what the planners computed for it

\* The ROV-telemetry server (src/rov-telemetry-server/server.js) and the
\* multibeam server (src/unnamed/part_003), which share their structure
VARIABLES
    rovConfig,       \* which of the two servers runs, and process.env.USE_MOCK_DATA
    rovClients,      \* wss.clients
    queryInterval,   \* the variable queryInterval: {} for null, else {the timer}
    rovTimers,       \* the interval timers that were set and not cleared
    latestTelemetry, \* latestTelemetry / latestSwaths: <<>> while nothing was broadcast
    rovLast,         \* rovLast[c]: the last message sent to client c, with its source
    rovObtained,     \* (history) where the data of the ticks so far came from
    rovPolled        \* (history) the sample of the latest tick, and the parity of the ticks

\* The live ship-GPS feed of src/gps-server/server-influxdb.js
VARIABLES
    clientsShip,        \* clientsShip, with each client's readyState
    latestGpsDataShip,  \* latestGpsDataShip: <<>> for {}
    liveTicks,          \* (history) the number of times the interval timer fired
    liveQueries,        \* liveQueries[q]: the q-th queryShipGPS() call and its outcome
    liveSent,           \* (history) the sends of the feed, in order
    liveAtConnect       \* (history) liveAtConnect[c]: latestGpsDataShip when c connected

\* The realtime feed of src/oceanographic-server/server.js
VARIABLES
    oceanMode,     \* "mock" (USE_MOCK_DATA || !queryApi) or "influxdb"
    oceanClients,  \* oceanClients[c]: readyState and ws.sensors (<<>> for undefined)
    oceanAsked,    \* (history) oceanAsked[c]: the last subscribe message of c
    oceanRuns,     \* oceanRuns[r]: the sensor the r-th broadcastRealtimeData() is at
    oceanSent      \* what the latest step of the server sent (and logged)

\* The upstream ship-GPS client of the oceanographic server
\* (src/oceanographic-server/server.js) and of the multibeam server
\* (src/unnamed/part_003)
VARIABLES
    upServer,             \* which of the two servers runs
    upstream,             \* upstream[i]: the state of the socket of the i-th connectToShipGPS()
    upTimers,             \* the pending reconnect timers (a count)
    currentShipPosition   \* currentShipPosition / latestShipGPS: <<>> while none was received

\* One call of queryShipGPS / queryHistoricalShipPosition of
\* src/gps-server/server-influxdb.js
VARIABLES
    fieldRows,     \* the rows of the query still to be passed to next()
    fieldResult,   \* the object `result`, with (history) the time of each field's row
    fieldMsg       \* what the promise resolved with: <<>> while it is pending

\* The queryHistorical message of the ship socket (src/gps-server/server-influxdb.js)
VARIABLES
    posQuery       \* the handler invocation: where it stands, and what it sent

trackVars == <<readyState, sendThrows, reqs, task, timers, sent, queries, returned, closedAt>>
histVars == <<hist, gpsRows, sensorRows, gpsData, wsSent>>
planVars == <<timeDiff, planned>>
rovVars == <<rovConfig, rovClients, queryInterval, rovTimers, latestTelemetry, rovLast,
             rovObtained, rovPolled>>
liveVars == <<clientsShip, latestGpsDataShip, liveTicks, liveQueries, liveSent, liveAtConnect>>
oceanVars == <<oceanMode, oceanClients, oceanAsked, oceanRuns, oceanSent>>
upVars == <<upServer, upstream, upTimers, currentShipPosition>>
fieldVars == <<fieldRows, fieldResult, fieldMsg>>
posVars == <<posQuery>>
vars == <<trackVars, histVars, planVars, rovVars, liveVars, oceanVars, upVars, fieldVars,
          posVars>>

----------------------------------------------------------------------------
\* Pure helpers

RECURSIVE SumVehicles(_)
SumVehicles(R) ==
    IF R = {} THEN 0
    ELSE LET r == CHOOSE x \in R : TRUE
         IN  Len(reqs[r].vehicles) + SumVehicles(R \ {r})

Min(a, b) == IF a < b THEN a ELSE b

\* Math.ceil(a / b) for a >= 0, b > 0
CeilDivFloor(a, b) == a \div b
CeilDiv(a, b) == IF a % b = 0 THEN a \div b ELSE (a \div b) + 1

\* Array.prototype.slice(from, to) with 0 <= from, 0 <= to: the elements at the
\* 0-based indices from .. min(to, length) - 1
SliceOneMore(s, from, to) == SubSeq(s, from + 1, Min(to + 1, Len(s)))
Slice(s, from, to) == SubSeq(s, from + 1, Min(to, Len(s)))

----------------------------------------------------------------------------
\* The handler's code between two awaits.  s is the state a step works on:
\* s.id the number of the request, s.req the parsed message (data), s.t the
\* task, and s.sent, s.queries, s.timers the variables of these names.

\* lines 312-320: the tracklineData message of the chunk at loop index s.t.i
DataMsgZeroBased(s, chunk) ==
    [type |-> "tracklineData", vehicle |-> s.req.vehicles[s.t.vidx],
     startTime |-> s.req.startTime, endTime |-> s.req.endTime,
     chunk |-> s.t.i, totalChunks |-> s.t.totalChunks, points |-> chunk,
     req |-> s.id, vidx |-> s.t.vidx]
DataMsgCounted(s, chunk) ==
    [type |-> "tracklineData", vehicle |-> s.req.vehicles[s.t.vidx],
     startTime |-> s.req.startTime, endTime |-> s.req.endTime,
     chunk |-> Len(s.sent) + 1, totalChunks |-> s.t.totalChunks, points |-> chunk,
     req |-> s.id, vidx |-> s.t.vidx]
DataMsg(s, chunk) ==
    [type |-> "tracklineData", vehicle |-> s.req.vehicles[s.t.vidx],
     startTime |-> s.req.startTime, endTime |-> s.req.endTime,
     chunk |-> s.t.i + 1, totalChunks |-> s.t.totalChunks, points |-> chunk,
     req |-> s.id, vidx |-> s.t.vidx]

\* lines 329-333 (totalPoints: points.length) and 430-434 (totalPoints: 0)
CompleteMsgRounded(s, totalPoints) ==
    [type |-> "tracklineComplete", vehicle |-> s.req.vehicles[s.t.vidx],
     totalPoints |-> s.t.totalChunks * CHUNK_SIZE,
     req |-> s.id, vidx |-> s.t.vidx]
CompleteMsg(s, totalPoints) ==
    [type |-> "tracklineComplete", vehicle |-> s.req.vehicles[s.t.vidx],
     totalPoints |-> totalPoints, req |-> s.id, vidx |-> s.t.vidx]

\* lines 440-443
ErrorMsg(s, message) ==
    [type |-> "error", message |-> message, req |-> s.id, vidx |-> s.t.vidx]

\* ws.send on a socket that is not OPEN: ws 7 and later drop the data, earlier
\* releases throw "WebSocket is not open".  The repository pins no release, so
\* either may be installed; which one shows only once the socket has closed.
Throws == readyState # "OPEN" /\ sendThrows

\* catch (error) of the handler, lines 438-444: one ws.send of the error message;
\* if that send throws too the async handler ends rejected.
Catch(s, message) ==
    [s EXCEPT !.sent = Append(@, ErrorMsg(s, message)),
              !.t = [@ EXCEPT !.pc = "failed"]]

\* queryHistoricalTrackline up to queryApi.queryRows, lines 419-425 and 239-280
IssueQuery(s, k) ==
    [s EXCEPT !.queries = Append(@, [req |-> s.id, vidx |-> k,
                                      vehicle |-> s.req.vehicles[k],
                                      startTime |-> s.req.startTime,
                                      endTime |-> s.req.endTime,
                                      at |-> Len(s.sent)]),
              !.t = [pc |-> "awaitQuery", vidx |-> k, points |-> <<>>,
                     i |-> 0, totalChunks |-> 0]]

\* for (const vehicle of vehicles), line 418, at the k-th vehicle
ForVehicles(s, k) ==
    IF k > Len(s.req.vehicles)
    THEN [s EXCEPT !.t = [@ EXCEPT !.pc = "done"]]
    ELSE IssueQuery(s, k)

\* The tracklineComplete send that ends a vehicle's response (lines 329-333 or
\* 430-434), then the next iteration of the vehicle loop.
CompleteAfterNextQuery(s, totalPoints) ==
    LET s1 == ForVehicles(s, s.t.vidx + 1)
    IN  [s1 EXCEPT !.sent = Append(@, CompleteMsg(s, totalPoints))]
CompleteThenNext(s, totalPoints) ==
    LET s1 == [s EXCEPT !.sent = Append(@, CompleteMsg(s, totalPoints))]
    IN  IF Throws THEN Catch(s1, "WebSocket is not open") ELSE ForVehicles(s1, s.t.vidx + 1)

\* sendTracklineInChunks at the loop test of line 309 with i = s.t.i: one more
\* chunk and the await of line 325, or the completion of lines 329-333.
ChunkLoop(s) ==
    IF s.t.i < s.t.totalChunks
    THEN LET chunk == Slice(s.t.points, s.t.i * CHUNK_SIZE, (s.t.i + 1) * CHUNK_SIZE)
             s1 == [s EXCEPT !.sent = Append(@, DataMsg(s, chunk))]
         IN  IF Throws
             THEN Catch(s1, "WebSocket is not open")
             ELSE [s1 EXCEPT !.t = [@ EXCEPT !.pc = "awaitDelay"],
                             !.timers = Append(@, s.id)]
    ELSE CompleteThenNext(s, Len(s.t.points))

\* sendTracklineInChunks from its call to its first await or its return,
\* lines 305-309
SendTracklineInChunks(s, points) ==
    ChunkLoop([s EXCEPT !.t = [@ EXCEPT !.points = points, !.i = 0,
                   !.totalChunks = CeilDiv(Len(points), CHUNK_SIZE)]])

\* lines 427-435, once the range query resolved with points
AfterQueryNoEmptyComplete(s, points) ==
    IF Len(points) > 0
    THEN SendTracklineInChunks(s, points)
    ELSE ForVehicles(s, s.t.vidx + 1)
AfterQuery(s, points) ==
    IF Len(points) > 0
    THEN SendTracklineInChunks(s, points)
    ELSE CompleteThenNext(s, 0)

----------------------------------------------------------------------------
\* State machine

IdleTask == [pc |-> "none", vidx |-> 0, points |-> <<>>, i |-> 0, totalChunks |-> 0]

Local(r) == [id |-> r, req |-> reqs[r], t |-> task[r],
             sent |-> sent, queries |-> queries, timers |-> timers]

Commit(s) ==
    /\ task' = [task EXCEPT ![s.id] = s.t]
    /\ sent' = s.sent
    /\ queries' = s.queries
    /\ timers' = s.timers

TracklineInit ==
    /\ readyState = "OPEN"
    /\ sendThrows = FALSE
    /\ reqs = [r \in Requests |-> NoRequest]
    /\ task = [r \in Requests |-> IdleTask]
    /\ timers = <<>>
    /\ sent = <<>>
    /\ queries = <<>>
    /\ returned = [rk \in Requests \X (1..MaxVehicles) |-> Pending]
    /\ closedAt = -1

\* No historical request has been received on the oceanographic connection.
HistIdle ==
    /\ hist = [pc |-> "idle", sensor |-> "none", error |-> FALSE, log |-> <<>>]
    /\ gpsRows = <<>>
    /\ sensorRows = <<>>
    /\ gpsData = <<>>
    /\ wsSent = <<>>

\* No span is being planned.
NoSpan == [sec |-> 0, ms |-> 0]
NotPlanned == [by |-> "none"]
PlanIdle ==
    /\ timeDiff = NoSpan
    /\ planned = NotPlanned

\* Bounds of the model.
MaxRovClients == 3    \* clients of the ROV-telemetry / multibeam server
MaxRovTimers == 2     \* interval timers that can be active at once

RovClientIds == 1..MaxRovClients
RovTimerIds == 1..MaxRovTimers

\* The ROV-telemetry server, just started, with USE_MOCK_DATA not set
RovIdle ==
    /\ rovConfig = [server |-> "rov-telemetry", USE_MOCK_DATA |-> "unset"]
    /\ rovClients = {}
    /\ queryInterval = {}
    /\ rovTimers = {}
    /\ latestTelemetry = <<>>
    /\ rovLast = [c \in RovClientIds |-> <<>>]
    /\ rovObtained = {}
    /\ rovPolled = <<>>

MaxLiveClients == 2   \* clients of the live ship-GPS feed
MaxLiveTicks == 2     \* firings of the feed's interval timer

LiveClientIds == 1..MaxLiveClients

\* The live feed just started: no client, nothing cached, the timer has not fired
LiveIdle ==
    /\ clientsShip = [c \in LiveClientIds |-> "none"]
    /\ latestGpsDataShip = <<>>
    /\ liveTicks = 0
    /\ liveQueries = <<>>
    /\ liveSent = <<>>
    /\ liveAtConnect = [c \in LiveClientIds |-> <<>>]

MaxOceanClients == 2  \* clients of the oceanographic realtime feed
MaxOceanTicks == 2    \* firings of the realtime feed's interval timer

OceanClientIds == 1..MaxOceanClients

NotConnected == [readyState |-> "none", sensors |-> <<>>]
NeverSubscribed == [subscribed |-> FALSE, sensors |-> <<>>]

\* The realtime feed just started in InfluxDB mode: no client, the timer
\* has not fired
OceanIdle ==
    /\ oceanMode = "influxdb"
    /\ oceanClients = [c \in OceanClientIds |-> NotConnected]
    /\ oceanAsked = [c \in OceanClientIds |-> NeverSubscribed]
    /\ oceanRuns = <<>>
    /\ oceanSent = <<>>

MaxUpAttempts == 4    \* calls of connectToShipGPS()

\* The upstream client of the oceanographic server after the call of line
\* 518: one socket, connecting
UpStarted ==
    /\ upServer = "oceanographic"
    /\ upstream = <<"connecting">>
    /\ upTimers = 0
    /\ currentShipPosition = <<>>

MaxRowTime == 2       \* the rows of a position query lie on the instants 1..MaxRowTime

PositionFields == {"Seapath_Latitude", "Seapath_Longitude", "Seapath_HeadingTrue"}

\* const result = {}
EmptyResult == [values |-> [f \in PositionFields |-> <<>>],
                times |-> [f \in PositionFields |-> <<>>],
                timestamp |-> <<>>]

\* No position query is running
FieldIdle ==
    /\ fieldRows = <<>>
    /\ fieldResult = EmptyResult
    /\ fieldMsg = <<>>

\* No queryHistorical message was received
PosIdle == posQuery = [pc |-> "idle", sent |-> <<>>]

Init ==
    /\ TracklineInit /\ HistIdle /\ PlanIdle /\ RovIdle /\ LiveIdle /\ OceanIdle /\ UpStarted
    /\ FieldIdle /\ PosIdle

\* ws.on('message') with a queryTrackline message, lines 395-398 and 414-425:
\* the handler runs to the await of the first vehicle's range query (or to
\* its end when data.vehicles is empty).  Messages are numbered in the order
\* they arrive; the connection names at most MaxVehicles vehicles in all.
VehiclesNamed == SumVehicles(Requests)

OnMessage(r, vehicles, startTime, endTime) ==
    /\ readyState = "OPEN"
    /\ reqs[r] = NoRequest
    /\ \A q \in 1..(r - 1) : reqs[q] # NoRequest
    /\ VehiclesNamed + Len(vehicles) <= MaxVehicles
    /\ LET data == [type |-> "queryTrackline", vehicles |-> vehicles,
                    startTime |-> startTime, endTime |-> endTime]
       IN  /\ reqs' = [reqs EXCEPT ![r] = data]
           /\ Commit(ForVehicles([Local(r) EXCEPT !.req = data], 1))
    /\ UNCHANGED <<readyState, sendThrows, returned, closedAt>>

\* complete() of a range query that waits for the earlier requests' queries
QueryCompleteInOrder(r, n) ==
    /\ \A q \in 1..(r - 1) : task[q].pc # "awaitQuery"
    /\ task[r].pc = "awaitQuery"
    /\ returned' = [returned EXCEPT ![<<r, task[r].vidx>>] = Resolved(n)]
    /\ Commit(AfterQuery(Local(r), QueryResult(n)))
    /\ UNCHANGED <<readyState, sendThrows, reqs, closedAt>>

\* complete() of the range query, lines 296-299, with n rows pushed by next():
\* the promise resolves and the handler runs on from line 427.
QueryComplete(r, n) ==
    /\ task[r].pc = "awaitQuery"
    /\ returned' = [returned EXCEPT ![<<r, task[r].vidx>>] = Resolved(n)]
    /\ Commit(AfterQuery(Local(r), QueryResult(n)))
    /\ UNCHANGED <<readyState, sendThrows, reqs, closedAt>>

\* error() of the range query, lines 292-295: the promise rejects and the
\* handler runs its catch block.
QueryError(r) ==
    /\ task[r].pc = "awaitQuery"
    /\ returned' = [returned EXCEPT ![<<r, task[r].vidx>>] = Rejected]
    /\ Commit(Catch(Local(r), "query failed"))
    /\ UNCHANGED <<readyState, sendThrows, reqs, closedAt>>

\* The timer of line 325 fires (timers of one duration fire in the order they
\* were set): i++ and the loop test of line 309.
DelayElapsed ==
    /\ timers # <<>>
    /\ LET r == Head(timers)
           s == [Local(r) EXCEPT !.timers = Tail(@), !.t = [@ EXCEPT !.i = @ + 1]]
       IN  Commit(ChunkLoop(s))
    /\ UNCHANGED <<readyState, sendThrows, reqs, returned, closedAt>>

\* The client goes away: the socket leaves the OPEN state (the 'close' handler
\* of lines 447-450 touches nothing the trackline path reads).
OnClose ==
    /\ readyState = "OPEN"
    /\ readyState' = "CLOSED"
    /\ closedAt' = Len(sent)
    /\ sendThrows' \in BOOLEAN
    /\ UNCHANGED <<reqs, task, timers, sent, queries, returned>>

\* The connection with requests whose range is a Query of the data model
\* (start < end); requests overlap freely.
Next ==
    \/ /\ \E r \in Requests, vehicles \in VehicleLists, startTime \in Times, endTime \in Times :
             startTime < endTime /\ OnMessage(r, vehicles, startTime, endTime)
       /\ UNCHANGED <<histVars, planVars, rovVars, liveVars, oceanVars, upVars, fieldVars, posVars>>
    \/ /\ \E r \in Requests, n \in PointCounts : QueryComplete(r, n)
       /\ UNCHANGED <<histVars, planVars, rovVars, liveVars, oceanVars, upVars, fieldVars, posVars>>
    \/ /\ \E r \in Requests : QueryError(r)
       /\ UNCHANGED <<histVars, planVars, rovVars, liveVars, oceanVars, upVars, fieldVars, posVars>>
    \/ DelayElapsed /\ UNCHANGED <<histVars, planVars, rovVars, liveVars, oceanVars, upVars, fieldVars, posVars>>
    \/ OnClose /\ UNCHANGED <<histVars, planVars, rovVars, liveVars, oceanVars, upVars, fieldVars, posVars>>

Spec == Init /\ [][Next]_vars

\* The connection with one request of any range, the empty and the reversed
\* ones included.
NextAnyRange ==
    \/ /\ \E vehicles \in VehicleLists, startTime \in Times, endTime \in Times :
             OnMessage(1, vehicles, startTime, endTime)
       /\ UNCHANGED <<histVars, planVars, rovVars, liveVars, oceanVars, upVars, fieldVars, posVars>>
    \/ /\ \E n \in PointCounts : QueryComplete(1, n)
       /\ UNCHANGED <<histVars, planVars, rovVars, liveVars, oceanVars, upVars, fieldVars, posVars>>
    \/ QueryError(1) /\ UNCHANGED <<histVars, planVars, rovVars, liveVars, oceanVars, upVars, fieldVars, posVars>>
    \/ DelayElapsed /\ UNCHANGED <<histVars, planVars, rovVars, liveVars, oceanVars, upVars, fieldVars, posVars>>
    \/ OnClose /\ UNCHANGED <<histVars, planVars, rovVars, liveVars, oceanVars, upVars, fieldVars, posVars>>

SpecAnyRange == Init /\ [][NextAnyRange]_vars

----------------------------------------------------------------------------
\* Reading the history

\* A response is what the connection sends for vehicle k of request r.
Responses == Requests \X (1..MaxVehicles)

Sends(rk, type) ==
    {x \in 1..Len(sent) : sent[x].req = rk[1] /\ sent[x].vidx = rk[2] /\ sent[x].type = type}
DataSends(rk) == Sends(rk, "tracklineData")
CompleteSends(rk) == Sends(rk, "tracklineComplete")

\* The position of the send x among the tracklineData sends of its response
Rank(rk, x) == Cardinality({y \in DataSends(rk) : y <= x})

\* The tracklineData send of rank j of a response
DataAt(rk, j) == sent[CHOOSE x \in DataSends(rk) : Rank(rk, x) = j]

RECURSIVE SumPoints(_)
SumPoints(X) ==
    IF X = {} THEN 0
    ELSE LET x == CHOOSE y \in X : TRUE
         IN  Len(sent[x].points) + SumPoints(X \ {x})

\* The points arrays of the first j tracklineData sends of a response, end to end
RECURSIVE Concat(_, _)
Concat(rk, j) == IF j = 0 THEN <<>> ELSE Concat(rk, j - 1) \o DataAt(rk, j).points

\* The rows the range query of a response resolved with
Rows(rk) == QueryResult(returned[rk].n)

----------------------------------------------------------------------------
\* Claims

\* C1: once a response whose query returned points has its tracklineComplete,
\* the number of its tracklineData sends is ceil(len(points) / CHUNK_SIZE)
\* (the least c with c * CHUNK_SIZE >= len(points)), every one of them carries
\* that number as totalChunks, and their points arrays hold len(points) points
\* in all.
C1_ChunkingLaw ==
    \A rk \in Responses :
        (returned[rk].outcome = "rows" /\ returned[rk].n > 0 /\ CompleteSends(rk) # {}) =>
            LET c == Cardinality(DataSends(rk))
                n == returned[rk].n
            IN  /\ c * CHUNK_SIZE >= n
                /\ (c - 1) * CHUNK_SIZE < n
                /\ \A x \in DataSends(rk) : sent[x].totalChunks = c
                /\ SumPoints(DataSends(rk)) = n

\* A response of more than one chunk, one of them short, has completed.
C1_Witness ==
    \E rk \in Responses :
        /\ returned[rk].n = CHUNK_SIZE + 1
        /\ CompleteSends(rk) # {}
        /\ Cardinality(DataSends(rk)) = 2

\* C2: at every moment the tracklineData sends of one response, in send order,
\* carry chunk = 1, 2, 3, ... without gap or repeat, never beyond totalChunks,
\* and all carry the same totalChunks.
C2_ChunkOrder ==
    \A rk \in Responses :
        \A x \in DataSends(rk) :
            /\ sent[x].chunk = Rank(rk, x)
            /\ sent[x].chunk <= sent[x].totalChunks
            /\ \A y \in DataSends(rk) : sent[y].totalChunks = sent[x].totalChunks

\* Two chunks of one response have been sent while another request's messages
\* are on the same connection.
C2_Witness ==
    \E rk \in Responses :
        /\ Cardinality(DataSends(rk)) = 2
        /\ \E x \in 1..Len(sent) : sent[x].req # rk[1]

\* C3: the chunk of rank j is exactly rows (j-1)*CHUNK_SIZE+1 .. min(j*CHUNK_SIZE,
\* len) of the query result: every chunk but the last has CHUNK_SIZE points, the
\* last has 1..CHUNK_SIZE, and once the response has its tracklineComplete the
\* chunks laid end to end are the query result.
C3_ChunksAreTheInput ==
    \A rk \in Responses :
        /\ \A x \in DataSends(rk) :
              LET j == Rank(rk, x)
                  n == returned[rk].n
                  first == (j - 1) * CHUNK_SIZE
                  len == Min(j * CHUNK_SIZE, n) - first
              IN  /\ returned[rk].outcome = "rows"
                  /\ len >= 1
                  /\ len <= CHUNK_SIZE
                  /\ j < sent[x].totalChunks => len = CHUNK_SIZE
                  /\ sent[x].points = [m \in 1..len |-> Rows(rk)[first + m]]
        /\ (returned[rk].n > 0 /\ CompleteSends(rk) # {}) =>
              Concat(rk, Cardinality(DataSends(rk))) = Rows(rk)

\* A completed response of a full chunk followed by a short one.
C3_Witness ==
    \E rk \in Responses :
        /\ returned[rk].n = CHUNK_SIZE + 1
        /\ CompleteSends(rk) # {}
        /\ \E x \in DataSends(rk) : Len(sent[x].points) = 1
        /\ \E x \in DataSends(rk) : Len(sent[x].points) = CHUNK_SIZE

\* C4: for a response whose query returned points there is never more than one
\* tracklineComplete; it comes after all totalChunks tracklineData sends of the
\* response, none follows it, and its totalPoints is the number of points
\* these delivered.  It has been sent as soon as the task is past the pacing
\* of the response's chunks, unless a send threw on the closed socket.
C4_OneCompleteAfterLastChunk ==
    \A rk \in Responses :
        (returned[rk].outcome = "rows" /\ returned[rk].n > 0) =>
            LET r == rk[1]
                here == task[r].vidx = rk[2]
            IN  /\ Cardinality(CompleteSends(rk)) <= 1
                /\ \A c \in CompleteSends(rk) :
                      /\ \A x \in DataSends(rk) : x < c /\ Cardinality(DataSends(rk)) = sent[x].totalChunks
                      /\ sent[c].totalPoints = SumPoints(DataSends(rk))
                      /\ sent[c].totalPoints = returned[rk].n
                      /\ ~(here /\ task[r].pc = "awaitDelay")
                /\ (here /\ task[r].pc = "failed") => (readyState = "CLOSED" /\ sendThrows)
                /\ ~(here /\ task[r].pc \in {"awaitDelay", "failed"}) => CompleteSends(rk) # {}

\* A chunked response has completed and its task has gone on to the next vehicle.
C4_Witness ==
    \E rk \in Responses :
        /\ returned[rk].n > CHUNK_SIZE
        /\ Cardinality(CompleteSends(rk)) = 1
        /\ task[rk[1]].vidx > rk[2]

\* C5: from the moment a range query has resolved with no rows, its response
\* consists of exactly one tracklineComplete, with totalPoints = 0, and of no
\* tracklineData.
C5_EmptyResult ==
    \A rk \in Responses :
        (returned[rk].outcome = "rows" /\ returned[rk].n = 0) =>
            /\ DataSends(rk) = {}
            /\ Cardinality(CompleteSends(rk)) = 1
            /\ \A c \in CompleteSends(rk) : sent[c].totalPoints = 0

\* A range query has resolved with no rows.
C5_Witness ==
    \E rk \in Responses :
        /\ returned[rk].outcome = "rows"
        /\ returned[rk].n = 0
        /\ CompleteSends(rk) # {}

\* C6: when the range query for vehicle k+1 of a request is issued, the
\* response for vehicle k has its tracklineComplete and every send of that
\* response was made before; every send for vehicle k+1 is made after.  So the
\* sends of one request are grouped by vehicle, in the order of data.vehicles.
C6_VehiclesInTurn ==
    /\ \A q \in 1..Len(queries) :
          queries[q].vidx > 1 =>
              LET r == queries[q].req
                  k == queries[q].vidx - 1
              IN  /\ CompleteSends(<<r, k>>) # {}
                  /\ \A x \in 1..Len(sent) :
                        sent[x].req = r =>
                            /\ sent[x].vidx <= k => x <= queries[q].at
                            /\ sent[x].vidx > k => x > queries[q].at
    /\ \A x \in 1..Len(sent), y \in 1..Len(sent) :
          (x < y /\ sent[x].req = sent[y].req) => sent[x].vidx <= sent[y].vidx

\* The second vehicle of a request is being streamed after a chunked first one.
C6_Witness ==
    \E r \in Requests :
        /\ Cardinality(DataSends(<<r, 1>>)) = 2
        /\ DataSends(<<r, 2>>) # {}

\* C7: no tracklineData or tracklineComplete of a later request is sent before
\* a tracklineComplete of an earlier request of the connection.
C7_OneSeriesInFlight ==
    \A x \in 1..Len(sent), y \in 1..Len(sent) :
        ~ /\ x < y
          /\ sent[x].req > sent[y].req
          /\ sent[x].type \in {"tracklineData", "tracklineComplete"}
          /\ sent[y].type = "tracklineComplete"

\* C8: once the connection has closed, no ws.send is called for a response
\* that had sent a chunk before the close.
C8_StopsOnClose ==
    closedAt >= 0 =>
        \A y \in 1..Len(sent) :
            y > closedAt =>
                ~ \E x \in 1..closedAt :
                      /\ sent[x].type = "tracklineData"
                      /\ sent[x].req = sent[y].req
                      /\ sent[x].vidx = sent[y].vidx

\* C9: no range query is issued for a request whose endTime is not after its
\* startTime.
C9_InvalidRangeNotQueried ==
    \A q \in 1..Len(queries) : queries[q].endTime > queries[q].startTime

\* C10: when the handler of a request has ended and one of its range queries
\* was rejected, every vehicle of the request has been queried.
C10_SiblingsStillServed ==
    \A r \in Requests :
        ( /\ task[r].pc \in {"done", "failed"}
          /\ \E k \in 1..Len(reqs[r].vehicles) : returned[<<r, k>>].outcome = "error" ) =>
            \A k \in 1..Len(reqs[r].vehicles) : returned[<<r, k>>].outcome # "pending"

----------------------------------------------------------------------------
\* The historical request of the oceanographic server in InfluxDB mode
\* (USE_MOCK_DATA false, queryApi set), src/oceanographic-server/server.js:
\* the 'historical' branch of the message handler with startTime and endTime,
\* queryHistoricalDataWithRange, and the single ws.send of the result.
\* Instants are milliseconds since the start of the requested range.

\* src/oceanographic-server/server.js:328 (and :439), let minDiff = 30000
Tolerance == 30000

\* Bounds of the model.
MaxTick == 4          \* rows lie on the instants 0, TickMs, ..., MaxTick * TickMs
MaxFixes == 3         \* rows of a position result
MaxSamples == 3       \* rows of a sensor result

\* Half the tolerance: two rows are 0, 1/2, 1, 3/2, ... tolerances apart.
TickMs == Tolerance \div 2
Ticks == 0..MaxTick

SensorTypes == {"temperature", "salinity"}

\* Where the ship can be at tick k: on the equator, on the prime meridian, or
\* off both.  No two ticks share a position.
PositionsAt(k) == {[lat |-> 0, lon |-> k + 1], [lat |-> k + 1, lon |-> 0],
                   [lat |-> k + 1, lon |-> k + 1]}

\* A row of the pivoted position query and a row of the sensor query
GpsRow(k, pos) == [time |-> k * TickMs, Seapath_Latitude |-> pos.lat,
                   Seapath_Longitude |-> pos.lon]
SensorRow(k, value) == [time |-> k * TickMs, value |-> value]

\* The elements of a set of ticks in ascending order (the store delivers the
\* rows of a range query by ascending _time, one row per aggregation window).
Ascending(T) ==
    [i \in 1..Cardinality(T) |-> CHOOSE t \in T : Cardinality({u \in T : u < t}) = i - 1]

TickSets(n) == {T \in SUBSET Ticks : Cardinality(T) <= n}

\* What the position query may deliver: up to MaxFixes rows at distinct ticks,
\* or a row at every tick of a range of CHUNK_SIZE + 1 windows.
ShortPositionResults ==
    UNION {{[i \in 1..Cardinality(T) |-> GpsRow(Ascending(T)[i], pos[Ascending(T)[i]])] :
               pos \in {f \in [T -> UNION {PositionsAt(k) : k \in Ticks}] :
                            \A k \in T : f[k] \in PositionsAt(k)}} :
           T \in TickSets(MaxFixes)}
LongPositionResult ==
    [j \in 1..(CHUNK_SIZE + 1) |-> GpsRow(j - 1, [lat |-> j, lon |-> j])]
PositionResults == ShortPositionResults \cup {LongPositionResult}

\* What the sensor query may deliver; a sample's value is its rank in the result.
ShortSensorResults ==
    {[i \in 1..Cardinality(T) |-> SensorRow(Ascending(T)[i], i)] : T \in TickSets(MaxSamples)}
LongSensorResult == [j \in 1..(CHUNK_SIZE + 1) |-> SensorRow(j - 1, j)]
SensorResults == ShortSensorResults \cup {LongSensorResult}

Abs(x) == IF x < 0 THEN 0 - x ELSE x

\* JavaScript truthiness of a number
Truthy(x) == x # 0

\* line 293 (row._time is a non-empty string)
IsFix(row) == Truthy(row.Seapath_Latitude) /\ Truthy(row.Seapath_Longitude)

\* lines 287-297: gpsData after the position rows were iterated, as the
\* entries of the Map in insertion order (the rows have distinct _time, so no
\* set() replaces an entry)
BuildGpsData(rows) ==
    LET fixes == SelectSeq(rows, IsFix)
    IN  [i \in 1..Len(fixes) |-> [timeKey |-> fixes[i].time,
                                   gpsPos |-> [lat |-> fixes[i].Seapath_Latitude,
                                               lon |-> fixes[i].Seapath_Longitude]]]

\* gpsData.get(timeKey), line 323: <<>> for undefined, else <<gpsPos>>
MapGet(gd, timeKey) ==
    IF \E i \in 1..Len(gd) : gd[i].timeKey = timeKey
    THEN <<gd[CHOOSE i \in 1..Len(gd) : gd[i].timeKey = timeKey].gpsPos>>
    ELSE <<>>

\* lines 326-340: closestGps after the loop over gpsData.entries(), <<>> for
\* null.  The test of line 334 succeeds at entry i when diff is below the
\* tolerance and below the diff of every earlier entry; closestGps is the
\* gpsPos of the last entry at which it succeeded.
ClosestGpsAnyDistance(gd, sensorTime) ==
    LET diff(i) == Abs(sensorTime - gd[i].timeKey)
        hits == {i \in 1..Len(gd) : \A j \in 1..(i - 1) : diff(i) < diff(j)}
    IN  IF hits = {} THEN <<>>
        ELSE <<gd[CHOOSE i \in hits : \A j \in hits : j <= i].gpsPos>>
ClosestGps(gd, sensorTime) ==
    LET diff(i) == Abs(sensorTime - gd[i].timeKey)
        hits == {i \in 1..Len(gd) :
                    diff(i) < Tolerance /\ \A j \in 1..(i - 1) : diff(i) < diff(j)}
    IN  IF hits = {} THEN <<>>
        ELSE <<gd[CHOOSE i \in hits : \A j \in hits : j <= i].gpsPos>>

\* lines 321-341: the gps of a sensor row
GpsFor(gd, row) ==
    LET gps == MapGet(gd, row.time)
    IN  IF gps = <<>> THEN ClosestGps(gd, row.time) ELSE gps

\* lines 344-351 (parseFloat of a number is that number)
Point(sensorType, row, gps) ==
    [sensor |-> sensorType, value |-> row.value, lat |-> gps.lat, lon |-> gps.lon,
     timestamp |-> row.time]

\* The sensor rows at which the test of line 343 succeeds, in iteration order
MatchedRows(gd, rows) ==
    LET Matched(row) == GpsFor(gd, row) # <<>>
    IN  SelectSeq(rows, Matched)

\* lines 315-357: points after the sensor rows were iterated, one push per
\* matched row
CorrelateUnshift(sensorType, gd, rows) ==
    LET kept == MatchedRows(gd, rows)
    IN  [i \in 1..Len(kept) |->
            Point(sensorType, kept[Len(kept) + 1 - i], GpsFor(gd, kept[Len(kept) + 1 - i])[1])]
Correlate(sensorType, gd, rows) ==
    LET kept == MatchedRows(gd, rows)
    IN  [i \in 1..Len(kept) |-> Point(sensorType, kept[i], GpsFor(gd, kept[i])[1])]

\* lines 579-583
HistoricalMsg(sensorType, historicalData) ==
    [type |-> "historical", sensor |-> sensorType, data |-> historicalData]

\* ws.on('message') with a historical request that has startTime and endTime,
\* lines 531-555 and 249-291: up to the await of the position query's rows.
OnHistoricalBothQueries(sensorType) ==
    /\ hist.pc = "idle"
    /\ hist' = [pc |-> "awaitGps", sensor |-> sensorType, error |-> FALSE,
                log |-> <<"gpsQuery", "sensorQuery">>]
    /\ UNCHANGED <<gpsRows, sensorRows, gpsData, wsSent>>
OnHistorical(sensorType) ==
    /\ hist.pc = "idle"
    /\ hist' = [pc |-> "awaitGps", sensor |-> sensorType, error |-> FALSE,
                log |-> <<"gpsQuery">>]
    /\ UNCHANGED <<gpsRows, sensorRows, gpsData, wsSent>>

\* The position query has delivered its rows, lines 291-317: with no usable
\* fix the function returns [] and the handler sends it, else the sensor
\* query is issued.
GpsRowsDone(rows) ==
    /\ hist.pc = "awaitGps"
    /\ gpsRows' = rows
    /\ gpsData' = BuildGpsData(rows)
    /\ IF Len(BuildGpsData(rows)) = 0
       THEN /\ hist' = [hist EXCEPT !.pc = "done", !.log = @ \o <<"gpsRows", "send">>]
            /\ wsSent' = Append(wsSent, HistoricalMsg(hist.sensor, <<>>))
       ELSE /\ hist' = [hist EXCEPT !.pc = "awaitSensor",
                                    !.log = @ \o <<"gpsRows", "sensorQuery">>]
            /\ UNCHANGED wsSent
    /\ UNCHANGED sensorRows

\* The sensor query has delivered its rows, lines 317-357 and 579-583: the
\* correlated points are returned and sent in one message.
SensorRowsDone(rows) ==
    /\ hist.pc = "awaitSensor"
    /\ sensorRows' = rows
    /\ hist' = [hist EXCEPT !.pc = "done", !.log = @ \o <<"sensorRows", "send">>]
    /\ wsSent' = Append(wsSent, HistoricalMsg(hist.sensor, Correlate(hist.sensor, gpsData, rows)))
    /\ UNCHANGED <<gpsRows, gpsData>>

\* A query fails, lines 358-361 and 579-583: the error is logged, [] is
\* returned and sent.
HistQueryError ==
    /\ hist.pc \in {"awaitGps", "awaitSensor"}
    /\ hist' = [hist EXCEPT !.pc = "done", !.error = TRUE, !.log = @ \o <<"error", "send">>]
    /\ wsSent' = Append(wsSent, HistoricalMsg(hist.sensor, <<>>))
    /\ UNCHANGED <<gpsRows, sensorRows, gpsData>>

NextHist ==
    \/ /\ \E sensorType \in SensorTypes : OnHistorical(sensorType)
       /\ UNCHANGED <<trackVars, planVars, rovVars, liveVars, oceanVars, upVars, fieldVars, posVars>>
    \/ /\ \E rows \in PositionResults : GpsRowsDone(rows)
       /\ UNCHANGED <<trackVars, planVars, rovVars, liveVars, oceanVars, upVars, fieldVars, posVars>>
    \/ /\ \E rows \in SensorResults : SensorRowsDone(rows)
       /\ UNCHANGED <<trackVars, planVars, rovVars, liveVars, oceanVars, upVars, fieldVars, posVars>>
    \/ HistQueryError /\ UNCHANGED <<trackVars, planVars, rovVars, liveVars, oceanVars, upVars, fieldVars, posVars>>

SpecHist == Init /\ [][NextHist]_vars

----------------------------------------------------------------------------
\* Reading the historical response

\* The points of the historical messages sent so far
HistPoints == UNION {{wsSent[x].data[i] : i \in 1..Len(wsSent[x].data)} : x \in 1..Len(wsSent)}

\* The rows of the position result, and the distance of one from an instant
Fixes == {gpsRows[i] : i \in 1..Len(gpsRows)}
Samples == {sensorRows[i] : i \in 1..Len(sensorRows)}
Dist(fix, t) == Abs(fix.time - t)

\* The point sent for a sensor row, if any
PointsOf(sample) == {p \in HistPoints : p.timestamp = sample.time /\ p.value = sample.value}

\* fix is the row whose position the point carries
Carries(p, fix) == p.lat = fix.Seapath_Latitude /\ p.lon = fix.Seapath_Longitude

----------------------------------------------------------------------------
\* Claims on the historical response

\* C11: no message that delivers historical series data carries more than
\* CHUNK_SIZE points: no tracklineData of the GPS server and no historical
\* message of the oceanographic server.
C11_MessagesWithinChunkSize ==
    /\ \A x \in 1..Len(sent) :
          sent[x].type = "tracklineData" => Len(sent[x].points) <= CHUNK_SIZE
    /\ \A x \in 1..Len(wsSent) : Len(wsSent[x].data) <= CHUNK_SIZE

\* C12: once the sensor rows are correlated, every sample that has a fix of
\* the position result at a distance of at most Tolerance has a point in the
\* historical message.
C12_NearSamplesKept ==
    \A sample \in Samples :
        (\E fix \in Fixes : Dist(fix, sample.time) <= Tolerance) => PointsOf(sample) # {}

C14_NearestFixUsed ==
    \A p \in HistPoints :
        \A fix \in Fixes :
            Carries(p, fix) => \A other \in Fixes : Dist(fix, p.timestamp) <= Dist(other, p.timestamp)

\* C15: when the position result has its two nearest rows at the same distance
\* d <= Tolerance before and after a sample, the sample has a point and the
\* point carries the position of the earlier row.
C15_EarlierFixOnTie ==
    \A sample \in Samples :
        \A early \in Fixes, late \in Fixes :
            ( /\ early.time < sample.time
              /\ late.time > sample.time
              /\ Dist(early, sample.time) = Dist(late, sample.time)
              /\ Dist(early, sample.time) <= Tolerance
              /\ \A other \in Fixes : Dist(other, sample.time) >= Dist(early, sample.time) ) =>
                /\ PointsOf(sample) # {}
                /\ \A p \in PointsOf(sample) : Carries(p, early)

\* C16: the data of a historical message is a subsequence of the sensor rows,
\* in their order: it has no more points than there are rows, the ranks of
\* the rows its points come from increase, every point has the timestamp of
\* its row, and the timestamps never decrease.
C16_OrderPreserved ==
    \A x \in 1..Len(wsSent) :
        LET data == wsSent[x].data
        IN  /\ Len(data) <= Len(sensorRows)
            /\ \A i \in 1..Len(data) :
                  /\ data[i].value \in 1..Len(sensorRows)
                  /\ data[i].timestamp = sensorRows[data[i].value].time
            /\ \A i \in 1..Len(data), j \in 1..Len(data) :
                  i < j => /\ data[i].value < data[j].value
                           /\ data[i].timestamp <= data[j].timestamp

\* Of three samples the middle one was dropped and the other two were sent.
C16_Witness ==
    \E x \in 1..Len(wsSent) :
        /\ Len(sensorRows) = 3
        /\ Len(wsSent[x].data) = 2
        /\ wsSent[x].data[1].value = 1
        /\ wsSent[x].data[2].value = 3

----------------------------------------------------------------------------
\* The resolution planners: the threshold table of queryHistoricalTrackline
\* (src/gps-server/server-influxdb.js:241-254) and the target-cardinality
\* window of queryHistoricalDataWithRange (src/oceanographic-server/
\* server.js:260-273), as functions of the span endTime - startTime.
\*
\* A span is held as whole seconds and milliseconds, [sec, ms] with
\* 0 <= ms < 1000, so that spans of months stay within the integers of the
\* model checker; the operators below compute on that form what the code
\* computes on the number of milliseconds.  A Flux duration such as `5s` is
\* held as [n |-> 5, unit |-> "s"].

\* src/oceanographic-server/server.js:262 (and :374)
targetPoints == 3000

\* Bounds of the model.
MaxDelta == 1         \* spans lie within MaxDelta of the places where a planner's answer changes
MaxUnits == 2         \* windows of up to MaxUnits seconds, minutes and hours

Max(a, b) == IF a > b THEN a ELSE b

Duration(n, unit) == [n |-> n, unit |-> unit]

\* data.downsample || 'auto', server-influxdb.js:420
Auto == Duration(0, "auto")

UnitMs(unit) == CASE unit = "s" -> 1000 [] unit = "m" -> 60000 [] unit = "h" -> 3600000

DurationMs(d) == d.n * UnitMs(d.unit)
DurationSec(d) == d.n * (UnitMs(d.unit) \div 1000)

\* The span of w * targetPoints + r milliseconds, 0 <= r < targetPoints
\* (targetPoints is a whole number of thousands)
SpanOf(w, r) == [sec |-> w * (targetPoints \div 1000) + r \div 1000, ms |-> r % 1000]

\* The values of floor(span / targetPoints) around which the planners' answers
\* change: whole seconds, minutes and hours of window, and the spans of 1 h,
\* 24 h and 168 h of the threshold table.
Marks ==
    {u * k : u \in {1000, 60000, 3600000}, k \in 1..MaxUnits}
        \cup {h * (3600000 \div targetPoints) : h \in {1, 24, 168}}
Windows == (0..MaxDelta) \cup {m + d : m \in Marks, d \in (0 - MaxDelta)..MaxDelta}
Remainders == (0..MaxDelta) \cup {targetPoints - d : d \in 1..MaxDelta}
Spans == {SpanOf(w, r) : w \in Windows, r \in Remainders}

\* The values of data.downsample
Downsamples == {Auto, Duration(30, "s")}

SpanLeq(a, b) == a.sec < b.sec \/ (a.sec = b.sec /\ a.ms <= b.ms)
SpanPositive(a) == a.sec > 0 \/ a.ms > 0

\* durationHours > h, server-influxdb.js:241 and 245-249
MoreThanHours(span, h) == span.sec > h * 3600 \/ (span.sec = h * 3600 /\ span.ms > 0)

\* server-influxdb.js:241-254
AggregateIntervalAtThreshold(span, downsample) ==
    IF downsample = Auto
    THEN IF span.sec >= 168 * 3600 THEN Duration(1, "m")
         ELSE IF span.sec >= 24 * 3600 THEN Duration(10, "s")
         ELSE IF span.sec >= 3600 THEN Duration(5, "s")
         ELSE Duration(1, "s")
    ELSE downsample
AggregateIntervalSwapped(span, downsample) ==
    IF downsample = Auto
    THEN IF MoreThanHours(span, 168) THEN Duration(1, "m")
         ELSE IF MoreThanHours(span, 24) THEN Duration(5, "s")
         ELSE IF MoreThanHours(span, 1) THEN Duration(10, "s")
         ELSE Duration(1, "s")
    ELSE downsample
AggregateInterval(span, downsample) ==
    IF downsample = Auto
    THEN IF MoreThanHours(span, 168) THEN Duration(1, "m")
         ELSE IF MoreThanHours(span, 24) THEN Duration(10, "s")
         ELSE IF MoreThanHours(span, 1) THEN Duration(5, "s")
         ELSE Duration(1, "s")
    ELSE downsample

\* Math.floor(timeDiffMs / d) for a span of sec * 1000 + ms milliseconds
FloorDivMs(span, d) == (span.sec \div d) * 1000 + ((span.sec % d) * 1000 + span.ms) \div d

\* server.js:263
WindowMs(span) == Max(1000, FloorDivMs(span, targetPoints))

\* server.js:266-273
WindowPeriodTruncated(windowMs) ==
    IF windowMs < 60000 THEN Duration(windowMs \div 1000, "s")
    ELSE IF windowMs < 3600000 THEN Duration(windowMs \div 60000, "m")
    ELSE Duration(windowMs \div 3600000, "h")
WindowPeriod(windowMs) ==
    IF windowMs < 60000 THEN Duration(CeilDiv(windowMs, 1000), "s")
    ELSE IF windowMs < 3600000 THEN Duration(CeilDiv(windowMs, 60000), "m")
    ELSE Duration(CeilDiv(windowMs, 3600000), "h")

\* The number of aggregation windows of widthSec seconds that cover a span:
\* ceil(span / width)
Buckets(span, widthSec) ==
    IF span.sec % widthSec = 0 /\ span.ms = 0
    THEN span.sec \div widthSec
    ELSE (span.sec \div widthSec) + 1

\* A request with a span still to be planned
InitPlan ==
    /\ TracklineInit
    /\ HistIdle
    /\ RovIdle
    /\ LiveIdle
    /\ timeDiff \in Spans
    /\ planned = NotPlanned
    /\ OceanIdle
    /\ UpStarted
    /\ FieldIdle
    /\ PosIdle

\* queryHistoricalTrackline(startTime, endTime, vehicle, downsample), lines 239-254
PlanTrackline(downsample) ==
    /\ planned = NotPlanned
    /\ planned' = [by |-> "queryHistoricalTrackline", downsample |-> downsample,
                   windowMs |-> 0, period |-> AggregateInterval(timeDiff, downsample)]
    /\ UNCHANGED timeDiff

\* queryHistoricalDataWithRange(sensorType, startTime, endTime), lines 260-273
PlanWindow ==
    /\ planned = NotPlanned
    /\ planned' = [by |-> "queryHistoricalDataWithRange", downsample |-> Auto,
                   windowMs |-> WindowMs(timeDiff),
                   period |-> WindowPeriod(WindowMs(timeDiff))]
    /\ UNCHANGED timeDiff

NextPlan ==
    \/ /\ \E downsample \in Downsamples : PlanTrackline(downsample)
       /\ UNCHANGED <<trackVars, histVars, rovVars, liveVars, oceanVars, upVars, fieldVars, posVars>>
    \/ PlanWindow /\ UNCHANGED <<trackVars, histVars, rovVars, liveVars, oceanVars, upVars, fieldVars, posVars>>

SpecPlan == InitPlan /\ [][NextPlan]_vars

\* What a planner's policy gives for a span, in seconds
WidthSec(by, span) ==
    IF by = "queryHistoricalTrackline"
    THEN DurationSec(AggregateInterval(span, Auto))
    ELSE DurationSec(WindowPeriod(WindowMs(span)))

----------------------------------------------------------------------------
\* Claims on the planners

C18_WidthMonotone ==
    (planned.by # "none" /\ planned.downsample = Auto /\ SpanPositive(timeDiff)) =>
        \A shorter \in Spans :
            (SpanPositive(shorter) /\ SpanLeq(shorter, timeDiff)) =>
                WidthSec(planned.by, shorter) <= DurationSec(planned.period)

\* The window policy chose one minute for a span, and sixty seconds for a
\* span shorter than it.
C18_Witness ==
    /\ planned.by = "queryHistoricalDataWithRange"
    /\ planned.period = Duration(1, "m")
    /\ \E shorter \in Spans :
          /\ SpanLeq(shorter, timeDiff)
          /\ WindowPeriod(WindowMs(shorter)) = Duration(60, "s")

\* C19: the window chosen for a span end > start covers the span with at most
\* targetPoints aggregation windows.
C19_AtMostTargetBuckets ==
    (planned.by = "queryHistoricalDataWithRange" /\ SpanPositive(timeDiff)) =>
        Buckets(timeDiff, DurationSec(planned.period)) <= targetPoints

\* C20: the window period is at least one second, its unit is seconds below
\* a window of 60 000 ms, minutes below 3 600 000 ms and hours from there on,
\* and its count is the least number of units that is not below windowMs.
C20_RoundedUpToUnits ==
    planned.by = "queryHistoricalDataWithRange" =>
        LET w == planned.windowMs
            u == UnitMs(planned.period.unit)
        IN  /\ DurationMs(planned.period) >= 1000
            /\ planned.period.unit = "s" <=> w < 60000
            /\ planned.period.unit = "m" <=> (w >= 60000 /\ w < 3600000)
            /\ planned.period.unit = "h" <=> w >= 3600000
            /\ planned.period.n * u >= w
            /\ (planned.period.n - 1) * u < w

\* A window of one millisecond more than a minute was rounded up to two minutes.
C20_Witness ==
    /\ planned.by = "queryHistoricalDataWithRange"
    /\ planned.windowMs = 60001
    /\ planned.period = Duration(2, "m")

----------------------------------------------------------------------------
\* Claims on the course of a historical request

\* The places of an event in hist.log
At(event) == {i \in 1..Len(hist.log) : hist.log[i] = event}

\* C26: once a query of the historical request has failed, the connection has
\* been sent no historical message with an empty data array.
C26_FailedQueryGivesError ==
    hist.error => \A x \in 1..Len(wsSent) : ~(wsSent[x].type = "historical" /\ wsSent[x].data = <<>>)

----------------------------------------------------------------------------
\* Two runs of one request, side by side

\* What a client reads in a message of a response (req and vidx are history)
Wire(msg) ==
    IF msg.type = "tracklineData"
    THEN <<msg.type, msg.vehicle, msg.startTime, msg.endTime, msg.chunk,
           msg.totalChunks, msg.points>>
    ELSE IF msg.type = "tracklineComplete"
    THEN <<msg.type, msg.vehicle, msg.totalPoints>>
    ELSE <<msg.type, msg.message>>

\* The tracklineData and tracklineComplete messages of a response, in send order
Stream(rk) ==
    LET Mine(msg) == /\ msg.req = rk[1]
                     /\ msg.vidx = rk[2]
                     /\ msg.type \in {"tracklineData", "tracklineComplete"}
        mine == SelectSeq(sent, Mine)
    IN  [i \in 1..Len(mine) |-> Wire(mine[i])]

\* Two requests of the connection are runs of one request against one store:
\* the messages are equal and the range queries for vehicle k returned the
\* same rows.
SameRun(r1, r2, k) ==
    /\ r1 < r2
    /\ reqs[r1] # NoRequest
    /\ reqs[r1] = reqs[r2]
    /\ k \in 1..Len(reqs[r1].vehicles)
    /\ returned[<<r1, k>>].outcome = "rows"
    /\ returned[<<r1, k>>] = returned[<<r2, k>>]

\* C28: two runs of one queryTrackline request against an unchanged store
\* send, for each vehicle, the same tracklineData messages (chunk,
\* totalChunks, points) in the same order as far as both have got, and once
\* both have sent their tracklineComplete the two sequences of messages are
\* equal.
C28_SameRequestSameMessages ==
    \A r1 \in Requests, r2 \in Requests, k \in 1..MaxVehicles :
        SameRun(r1, r2, k) =>
            LET s1 == Stream(<<r1, k>>)
                s2 == Stream(<<r2, k>>)
            IN  /\ \A i \in 1..Min(Len(s1), Len(s2)) : s1[i] = s2[i]
                /\ (CompleteSends(<<r1, k>>) # {} /\ CompleteSends(<<r2, k>>) # {}) => s1 = s2

\* Two runs of one request, each of two chunks, have both completed.
C28_Witness ==
    \E r1 \in Requests, r2 \in Requests :
        /\ SameRun(r1, r2, 1)
        /\ returned[<<r1, 1>>].n = CHUNK_SIZE + 1
        /\ CompleteSends(<<r1, 1>>) # {}
        /\ CompleteSends(<<r2, 1>>) # {}

----------------------------------------------------------------------------
\* The ROV-telemetry server, src/rov-telemetry-server/server.js, and the
\* multibeam server, src/unnamed/part_003: the connection handler, the close
\* handler, startTelemetryQuery / stopTelemetryQuery (startSwathQuery /
\* stopSwathQuery) and the interval callback.  Line numbers are those of the
\* ROV-telemetry server.

RovServers == {"rov-telemetry", "multibeam"}

\* The values of process.env.USE_MOCK_DATA
EnvValues == {"unset", "true", "false"}

\* line 11: process.env.USE_MOCK_DATA === 'true' || true
UseMockData(env) == env = "true" \/ TRUE

\* What a tick obtains: depth and heading (of the ROV, or of the swath)
Telemetries == [depth : 1..2, heading : 1..2, altitude : 1..2]

\* queryInfluxDB(), lines 79-139: with USE_MOCK_DATA the generated data, else
\* the result of the InfluxDB query
QueryInfluxDB(env, data) ==
    [source |-> IF UseMockData(env) THEN "mock" ELSE "influxdb",
     depth |-> data.depth, heading |-> data.heading, altitude |-> data.altitude]

\* lines 168-170: the depth or the heading differs from the latest sample
\* (whose depth and heading are null at the start)
TelemetryChangedAnyField(latest, telemetry) == latest = <<>> \/ latest[1] # telemetry
TelemetryChanged(latest, telemetry) ==
    \/ latest = <<>>
    \/ latest[1].depth # telemetry.depth
    \/ latest[1].heading # telemetry.heading

\* An interval timer that is not active (setInterval returns a new timer)
NewTimer == CHOOSE t \in RovTimerIds \ rovTimers : TRUE

\* startTelemetryQuery, lines 159-181
StartTelemetryQuery ==
    /\ rovTimers' = (rovTimers \ queryInterval) \cup {NewTimer}
    /\ queryInterval' = {NewTimer}

\* stopTelemetryQuery, lines 184-190
StopTelemetryQueryKeepsTimer ==
    /\ rovTimers' = rovTimers
    /\ queryInterval' = {}
StopTelemetryQuery ==
    /\ rovTimers' = rovTimers \ queryInterval
    /\ queryInterval' = {}

\* wss.on('connection'), lines 193-205: the client is in wss.clients when the
\* handler runs; it is sent the latest data, and the first client starts the
\* timer.
RovConnect(c) ==
    /\ c \notin rovClients
    /\ rovTimers # RovTimerIds      \* a timer is left for setInterval to return
    /\ rovClients' = rovClients \cup {c}
    /\ rovLast' = [rovLast EXCEPT ![c] = latestTelemetry]
    /\ IF Cardinality(rovClients \cup {c}) = 1
       THEN StartTelemetryQuery
       ELSE UNCHANGED <<queryInterval, rovTimers>>
    /\ UNCHANGED <<rovConfig, latestTelemetry, rovObtained, rovPolled>>

\* ws.on('close'), lines 207-214: wss.clients has lost the client when the
\* handler runs; the last client stops the timer.
RovClose(c) ==
    /\ c \in rovClients
    /\ rovClients' = rovClients \ {c}
    /\ rovLast' = [rovLast EXCEPT ![c] = <<>>]
    /\ IF rovClients \ {c} = {}
       THEN StopTelemetryQuery
       ELSE UNCHANGED <<queryInterval, rovTimers>>
    /\ UNCHANGED <<rovConfig, latestTelemetry, rovObtained, rovPolled>>

\* The interval callback, lines 164-178 (part_003 lines 343-355): the data is
\* obtained and, with a client connected, broadcast; the ROV-telemetry server
\* broadcasts only a depth or a heading that differs from the latest.  With
\* USE_MOCK_DATA the awaited promise is already resolved, so no event comes
\* between the tick and the broadcast.
RovTick(t, data) ==
    /\ t \in rovTimers
    /\ LET telemetry == QueryInfluxDB(rovConfig.USE_MOCK_DATA, data)
           changed == \/ rovConfig.server = "multibeam"
                      \/ TelemetryChanged(latestTelemetry, telemetry)
       IN  /\ rovObtained' = rovObtained \cup {telemetry.source}
           /\ rovPolled' = <<[sample |-> telemetry,
                              odd |-> rovPolled = <<>> \/ ~rovPolled[1].odd]>>
           /\ IF rovClients # {} /\ changed
              THEN /\ latestTelemetry' = <<telemetry>>
                   /\ rovLast' = [c \in RovClientIds |->
                                     IF c \in rovClients THEN <<telemetry>> ELSE rovLast[c]]
              ELSE UNCHANGED <<latestTelemetry, rovLast>>
    /\ UNCHANGED <<rovConfig, rovClients, queryInterval, rovTimers>>

\* Either server, started with any value of USE_MOCK_DATA
InitRov ==
    /\ TracklineInit
    /\ HistIdle
    /\ PlanIdle
    /\ LiveIdle
    /\ rovConfig \in [server : RovServers, USE_MOCK_DATA : EnvValues]
    /\ rovClients = {}
    /\ queryInterval = {}
    /\ rovTimers = {}
    /\ latestTelemetry = <<>>
    /\ rovLast = [c \in RovClientIds |-> <<>>]
    /\ rovObtained = {}
    /\ rovPolled = <<>>
    /\ OceanIdle
    /\ UpStarted
    /\ FieldIdle
    /\ PosIdle

NextRov ==
    \/ /\ \E c \in RovClientIds : RovConnect(c)
       /\ UNCHANGED <<trackVars, histVars, planVars, liveVars, oceanVars, upVars, fieldVars, posVars>>
    \/ /\ \E c \in RovClientIds : RovClose(c)
       /\ UNCHANGED <<trackVars, histVars, planVars, liveVars, oceanVars, upVars, fieldVars, posVars>>
    \/ /\ \E t \in RovTimerIds, data \in Telemetries : RovTick(t, data)
       /\ UNCHANGED <<trackVars, histVars, planVars, liveVars, oceanVars, upVars, fieldVars, posVars>>

SpecRov == InitRov /\ [][NextRov]_vars

----------------------------------------------------------------------------
\* Claims on the ROV-telemetry and multibeam servers

\* C21: in both servers a polling timer is active exactly when a client is
\* connected, there is never more than one, and it is the one queryInterval
\* holds.
C21_TimerIffClients ==
    /\ rovTimers # {} <=> rovClients # {}
    /\ Cardinality(rovTimers) <= 1
    /\ rovTimers = queryInterval

\* A second client is connected after the first one has left, and the timer
\* runs (a tick has delivered data to it).
C21_Witness ==
    /\ rovClients = {2}
    /\ rovLast[1] = <<>>
    /\ rovLast[2] # <<>>
    /\ Cardinality(rovTimers) = 1

\* C37: in the ROV-telemetry server the sample of a tick is cached and
\* broadcast if and only if a client is connected and its depth or heading
\* differs from the cached sample; else the tick leaves the cache and the
\* clients alone.
C37_CachedIffDepthOrHeadingDiffers ==
    [][rovConfig.server = "rov-telemetry" /\ rovPolled' # rovPolled =>
         LET sample == rovPolled'[1].sample
             differs == \/ latestTelemetry = <<>>
                        \/ latestTelemetry[1].depth # sample.depth
                        \/ latestTelemetry[1].heading # sample.heading
         IN  IF rovClients # {} /\ differs
             THEN /\ latestTelemetry' = <<sample>>
                  /\ \A c \in rovClients : rovLast'[c] = <<sample>>
             ELSE UNCHANGED <<latestTelemetry, rovLast>>
      ]_vars

\* The latest tick of the ROV-telemetry server polled a sample that differs
\* from the cached one in its altitude alone; the cache and the connected
\* client still hold the older sample.
C37_Witness ==
    /\ rovConfig.server = "rov-telemetry"
    /\ rovPolled # <<>> /\ latestTelemetry # <<>>
    /\ rovPolled[1].sample.altitude # latestTelemetry[1].altitude
    /\ rovPolled[1].sample.depth = latestTelemetry[1].depth
    /\ rovPolled[1].sample.heading = latestTelemetry[1].heading
    /\ \E c \in rovClients : rovLast[c] = latestTelemetry

\* C29: with USE_MOCK_DATA=false in the environment, no tick obtains
\* generated mock data: all data comes from the InfluxDB query.
C29_NoMockWhenDisabled ==
    rovConfig.USE_MOCK_DATA = "false" => rovObtained \subseteq {"influxdb"}

----------------------------------------------------------------------------
\* The live ship-GPS feed, src/gps-server/server-influxdb.js: the interval
\* timer of lines 358-369, queryShipGPS, broadcast and the connection and
\* close handlers of wssShip.  The ROV feed (lines 371-382, 458-476) is its
\* twin.

\* What `last()` of the query finds in the last 30 s: no row, or the latest
\* latitude and longitude with their time.  Time is counted in timer periods.
ShipResults ==
    {<<>>} \cup {<<r>> : r \in [time : 1..MaxLiveTicks, Seapath_Latitude : 0..1,
                                 Seapath_Longitude : 0..1]}

\* queryShipGPS complete(), lines 70-85: the position, or null (<<>>)
ShipPosition(result) ==
    IF result # <<>> /\ Truthy(result[1].Seapath_Latitude)
                    /\ Truthy(result[1].Seapath_Longitude)
    THEN <<[type |-> "position", timestamp |-> result[1].time,
            lat |-> result[1].Seapath_Latitude, lon |-> result[1].Seapath_Longitude]>>
    ELSE <<>>

\* clientsShip[c] is "open" or "closing" for a client in the set clientsShip
\* (readyState OPEN or CLOSING), "dropped" for a client the error handler
\* has deleted and whose close event is still to come, "closed" after it.
InClientsShip == {c \in LiveClientIds : clientsShip[c] \in {"open", "closing"}}
OpenClientsShip == {c \in LiveClientIds : clientsShip[c] = "open"}

\* broadcast, lines 339-355: one send to every client of the set that is OPEN
BroadcastToRegistered(q, data) ==
    [kind |-> "broadcast", query |-> q, to |-> InClientsShip, data |-> data]
Broadcast(q, data) ==
    [kind |-> "broadcast", query |-> q, to |-> OpenClientsShip, data |-> data]

\* lines 389-392: the latest data, if there is any, for a new client
SendLatestNothing(c) == <<>>
SendLatest(c) ==
    IF latestGpsDataShip # <<>>
    THEN <<[kind |-> "latest", to |-> {c}, data |-> latestGpsDataShip[1]]>>
    ELSE <<>>

\* wssShip.on('connection'), lines 385-392
LiveConnect(c) ==
    /\ clientsShip[c] = "none"
    /\ clientsShip' = [clientsShip EXCEPT ![c] = "open"]
    /\ liveSent' = liveSent \o SendLatest(c)
    /\ liveAtConnect' = [liveAtConnect EXCEPT ![c] = latestGpsDataShip]
    /\ UNCHANGED <<latestGpsDataShip, liveTicks, liveQueries>>

\* A client starts to close its connection: it is CLOSING and still in
\* clientsShip until the close event.
LiveClosing(c) ==
    /\ clientsShip[c] = "open"
    /\ clientsShip' = [clientsShip EXCEPT ![c] = "closing"]
    /\ UNCHANGED <<latestGpsDataShip, liveTicks, liveQueries, liveSent, liveAtConnect>>

\* ws.on('error'), lines 452-455: the socket is CLOSING when the event is
\* emitted; the handler deletes the client
LiveSocketError(c) ==
    /\ clientsShip[c] \in {"open", "closing"}
    /\ clientsShip' = [clientsShip EXCEPT ![c] = "dropped"]
    /\ UNCHANGED <<latestGpsDataShip, liveTicks, liveQueries, liveSent, liveAtConnect>>

\* ws.on('close'), lines 447-450
LiveClose(c) ==
    /\ clientsShip[c] \in {"open", "closing", "dropped"}
    /\ clientsShip' = [clientsShip EXCEPT ![c] = "closed"]
    /\ UNCHANGED <<latestGpsDataShip, liveTicks, liveQueries, liveSent, liveAtConnect>>

\* The interval callback up to its await, lines 358-361: queryShipGPS() is
\* called, whatever became of the earlier calls and whoever is connected.
LiveTickSkipsWhilePending ==
    /\ liveTicks < MaxLiveTicks
    /\ liveTicks' = liveTicks + 1
    /\ liveQueries' =
          IF \E q \in 1..Len(liveQueries) : liveQueries[q].state = "pending"
          THEN liveQueries
          ELSE Append(liveQueries, [state |-> "pending",
                                    subscribers |-> Cardinality(InClientsShip)])
    /\ UNCHANGED <<clientsShip, latestGpsDataShip, liveSent, liveAtConnect>>
LiveTick ==
    /\ liveTicks < MaxLiveTicks
    /\ liveTicks' = liveTicks + 1
    /\ liveQueries' = Append(liveQueries, [state |-> "pending",
                                           subscribers |-> Cardinality(InClientsShip)])
    /\ UNCHANGED <<clientsShip, latestGpsDataShip, liveSent, liveAtConnect>>

\* complete() of a query and the rest of its callback, lines 70-85 and
\* 361-365: a position is cached and broadcast, null is dropped.  The store
\* evaluates a query when it is issued: the rows of the q-th query are those
\* of the q-th timer period, however late they are delivered.
LiveComplete(q, result) ==
    /\ q \in 1..Len(liveQueries)
    /\ liveQueries[q].state = "pending"
    /\ result # <<>> => result[1].time = q
    /\ LET shipGPS == ShipPosition(result)
       IN  /\ liveQueries' = [liveQueries EXCEPT ![q] =
                  [state |-> IF shipGPS # <<>> THEN "position" ELSE "null",
                   subscribers |-> @.subscribers, result |-> result,
                   shipGPS |-> shipGPS]]
           /\ IF shipGPS # <<>>
              THEN /\ latestGpsDataShip' = shipGPS
                   /\ liveSent' = Append(liveSent, Broadcast(q, shipGPS[1]))
              ELSE UNCHANGED <<latestGpsDataShip, liveSent>>
    /\ UNCHANGED <<clientsShip, liveTicks, liveAtConnect>>

\* error() of a query and the catch of the callback, lines 66-69 and 366-368
LiveError(q) ==
    /\ q \in 1..Len(liveQueries)
    /\ liveQueries[q].state = "pending"
    /\ liveQueries' = [liveQueries EXCEPT ![q] =
          [state |-> "failed", subscribers |-> @.subscribers, result |-> <<>>,
           shipGPS |-> <<>>]]
    /\ UNCHANGED <<clientsShip, latestGpsDataShip, liveTicks, liveSent, liveAtConnect>>

InitLive ==
    /\ TracklineInit
    /\ HistIdle
    /\ PlanIdle
    /\ RovIdle
    /\ LiveIdle
    /\ OceanIdle
    /\ UpStarted
    /\ FieldIdle
    /\ PosIdle

NextLive ==
    \/ /\ \E c \in LiveClientIds : LiveConnect(c)
       /\ UNCHANGED <<trackVars, histVars, planVars, rovVars, oceanVars, upVars, fieldVars, posVars>>
    \/ /\ \E c \in LiveClientIds : LiveClosing(c)
       /\ UNCHANGED <<trackVars, histVars, planVars, rovVars, oceanVars, upVars, fieldVars, posVars>>
    \/ /\ \E c \in LiveClientIds : LiveSocketError(c)
       /\ UNCHANGED <<trackVars, histVars, planVars, rovVars, oceanVars, upVars, fieldVars, posVars>>
    \/ /\ \E c \in LiveClientIds : LiveClose(c)
       /\ UNCHANGED <<trackVars, histVars, planVars, rovVars, oceanVars, upVars, fieldVars, posVars>>
    \/ /\ LiveTick
       /\ UNCHANGED <<trackVars, histVars, planVars, rovVars, oceanVars, upVars, fieldVars, posVars>>
    \/ /\ \E q \in 1..MaxLiveTicks, result \in ShipResults : LiveComplete(q, result)
       /\ UNCHANGED <<trackVars, histVars, planVars, rovVars, oceanVars, upVars, fieldVars, posVars>>
    \/ /\ \E q \in 1..MaxLiveTicks : LiveError(q)
       /\ UNCHANGED <<trackVars, histVars, planVars, rovVars, oceanVars, upVars, fieldVars, posVars>>

SpecLive == InitLive /\ [][NextLive]_vars

----------------------------------------------------------------------------
\* Claims on the live feeds

\* What client c was sent, in order
ReceivedBy(c) == SelectSeq(liveSent, LAMBDA m : c \in m.to)

\* The queries that gave a position
GavePosition == {q \in 1..Len(liveQueries) : liveQueries[q].state = "position"}

\* C22: no live poll query is issued while the feed has no subscriber.
C22_NoPollWithoutSubscribers ==
    \A q \in 1..Len(liveQueries) : liveQueries[q].subscribers > 0

\* C23: every firing of the timer issued its own query, whatever the state
\* of the earlier ones, and every query that resolved to a position had that
\* position broadcast.
C23_EveryTickQueriesAndBroadcasts ==
    /\ Len(liveQueries) = liveTicks
    /\ \A q \in GavePosition :
          \E i \in 1..Len(liveSent) :
              /\ liveSent[i].kind = "broadcast"
              /\ liveSent[i].query = q
              /\ liveSent[i].data = liveQueries[q].shipGPS[1]

\* The position of the second tick has reached a client while the query of
\* the first tick is still pending.
C23_Witness ==
    /\ Len(liveQueries) = 2
    /\ liveQueries[1].state = "pending"
    /\ liveQueries[2].state = "position"
    /\ \E i \in 1..Len(liveSent) :
          /\ liveSent[i].kind = "broadcast"
          /\ liveSent[i].query = 2
          /\ liveSent[i].to # {}

\* C27: a client that connected while a position was cached was sent that
\* position first, before every broadcast that reached it.
C27_CachedPositionFirst ==
    \A c \in LiveClientIds :
        liveAtConnect[c] # <<>> =>
            /\ ReceivedBy(c) # <<>>
            /\ ReceivedBy(c)[1].kind = "latest"
            /\ ReceivedBy(c)[1].data = liveAtConnect[c][1]

\* A client that connected after a position was cached has received the
\* cached position and then a broadcast of a later, different position.
C27_Witness ==
    \E c \in LiveClientIds :
        /\ liveAtConnect[c] # <<>>
        /\ Len(ReceivedBy(c)) = 2
        /\ ReceivedBy(c)[2].kind = "broadcast"
        /\ ReceivedBy(c)[2].data # ReceivedBy(c)[1].data

\* The broadcasts of the feed, as indices of liveSent
Broadcasts == {i \in 1..Len(liveSent) : liveSent[i].kind = "broadcast"}

\* C33: the timestamps of successive broadcasts never go backwards, also
\* when polls overlap.
C33_BroadcastTimesAscend ==
    \A i, j \in Broadcasts :
        i < j => liveSent[i].data.timestamp <= liveSent[j].data.timestamp

\* C35: a query that found a fix, its latitude or longitude being 0 or not,
\* had the fix cached and broadcast.
C35_ZeroFixBroadcast ==
    \A q \in 1..Len(liveQueries) :
        liveQueries[q].state # "pending" /\ liveQueries[q].state # "failed"
            /\ liveQueries[q].result # <<>>
            => q \in GavePosition

\* C36: a broadcast goes to exactly the clients that are in the client set
\* and OPEN when it is made, and a client whose close event has fired is
\* sent nothing any more.
C36_BroadcastToOpenClients ==
    [][/\ \A i \in (1..Len(liveSent')) \ (1..Len(liveSent)) :
             liveSent'[i].kind = "broadcast" =>
                 liveSent'[i].to = {c \in LiveClientIds : clientsShip[c] = "open"}
       /\ \A c \in LiveClientIds :
             clientsShip[c] = "closed" =>
                 \A i \in (1..Len(liveSent')) \ (1..Len(liveSent)) : c \notin liveSent'[i].to
      ]_vars

\* A broadcast has reached one client and not the other one, which was
\* connected before and is closing, dropped or closed.
C36_Witness ==
    \E i \in Broadcasts : \E c, e \in LiveClientIds :
        /\ liveSent[i].to = {c}
        /\ clientsShip[e] \in {"closing", "dropped", "closed"}
        /\ clientsShip[c] = "open"

----------------------------------------------------------------------------
\* The realtime feed of the oceanographic server,
\* src/oceanographic-server/server.js: queryRealtimeData, the subscribe
\* message, broadcastRealtimeData and its interval timer.

\* Object.keys(SENSORS), in order (the sensors of the model)
SensorKeys == <<"temperature", "salinity">>

\* range(start: -1m) of both queries of queryRealtimeData, in ms
Minute == 60000

\* The instants, within the last minute, of the rows `last()` can find
RealtimeInstants == {0, Minute - Tolerance, Minute}

\* What the sensor query finds: no row, or the time of the latest sample
LatestSamples == {<<>>} \cup {<<t>> : t \in RealtimeInstants}

\* What the position query finds: no row, or the latest fix (here a fix of
\* this instant, on the prime meridian)
LatestFixes ==
    {<<>>, <<[time |-> Minute, Seapath_Latitude |-> 1, Seapath_Longitude |-> 0]>>}

\* queryRealtimeData, lines 183-246: the latest sample of the last minute
\* with the position of the latest fix of the last minute; null (<<>>)
\* without a sample or without a fix.  fixTime is not part of the reading:
\* it records which fix the position is from.
QueryRealtimeData(sensorType, sample, fix) ==
    IF sample = <<>> \/ fix = <<>>
    THEN <<>>
    ELSE <<[sensor |-> sensorType, timestamp |-> sample[1],
            lat |-> fix[1].Seapath_Latitude, lon |-> fix[1].Seapath_Longitude,
            fixTime |-> <<fix[1].time>>]>>

\* generateMockReading, lines 125-146: a reading at the ship's position, now
GenerateMockReading(sensorType) ==
    <<[sensor |-> sensorType, timestamp |-> Minute, lat |-> 1, lon |-> 1, fixTime |-> <<>>]>>

\* The `sensors` of a subscribe message: missing, or a list
SubscribeRequests == {<<>>} \cup {<<S>> : S \in SUBSET SensorTypes}

\* line 616: !client.sensors || client.sensors.includes(sensorType)
WantsEmptyIsAll(sensors, sensorType) ==
    sensors = <<>> \/ sensors[1] = {} \/ sensorType \in sensors[1]
Wants(sensors, sensorType) == sensors = <<>> \/ sensorType \in sensors[1]

OpenOceanClients == {c \in OceanClientIds : oceanClients[c].readyState = "open"}

\* lines 608-621: the sends of one reading (none for null)
RealtimeSends(sensorType, reading) ==
    IF reading = <<>>
    THEN <<>>
    ELSE <<[kind |-> "realtime", sensor |-> sensorType, data |-> reading[1],
            to |-> {c \in OpenOceanClients : Wants(oceanClients[c].sensors, sensorType)}]>>

\* wss.on('connection'), lines 521-529: the client is sent the config
OceanConnect(c) ==
    /\ oceanClients[c].readyState = "none"
    /\ oceanClients' = [oceanClients EXCEPT ![c].readyState = "open"]
    /\ oceanSent' = <<[kind |-> "config", to |-> {c}]>>
    /\ UNCHANGED <<oceanMode, oceanAsked, oceanRuns>>

\* The subscribe message, lines 535-538
OceanSubscribe(c, sensors) ==
    /\ oceanClients[c].readyState = "open"
    /\ oceanClients' = [oceanClients EXCEPT ![c].sensors =
                            IF sensors = <<>> THEN <<SensorTypes>> ELSE sensors]
    /\ oceanAsked' = [oceanAsked EXCEPT ![c] = [subscribed |-> TRUE, sensors |-> sensors]]
    /\ oceanSent' = <<>>
    /\ UNCHANGED <<oceanMode, oceanRuns>>

\* The `sensor` of a historical request: a key of SENSORS, or another name
RequestedSensors == SensorTypes \cup {"depth"}

\* generateMockHistoricalData, lines 148-180: the points, or the TypeError of
\* `sensor.range` for a sensor that SENSORS does not have (<<>>)
GenerateMockHistoricalData(sensorType) ==
    IF sensorType \in SensorTypes THEN <<"mock points">> ELSE <<>>

\* The historical message in mock mode, lines 539-587: the request is logged
\* (line 547), the data is generated and sent in one message; an exception
\* ends in the catch of line 585, which logs it.  In InfluxDB mode the
\* handler awaits the queries of the historical request modelled above.
OceanHistorical(c, sensorType) ==
    /\ oceanMode = "mock"
    /\ oceanClients[c].readyState = "open"
    /\ LET historicalData == GenerateMockHistoricalData(sensorType)
       IN  oceanSent' =
             <<[kind |-> "requested", from |-> c, sensor |-> sensorType]>>
             \o IF historicalData # <<>>
                THEN <<[kind |-> "historical", to |-> {c}, sensor |-> sensorType,
                        data |-> historicalData[1]]>>
                ELSE <<[kind |-> "error", to |-> {}]>>
    /\ UNCHANGED <<oceanMode, oceanClients, oceanAsked, oceanRuns>>

\* ws.on('close'), lines 590-593
OceanClose(c) ==
    /\ oceanClients[c].readyState = "open"
    /\ oceanClients' = [oceanClients EXCEPT ![c].readyState = "closed"]
    /\ oceanSent' = <<>>
    /\ UNCHANGED <<oceanMode, oceanAsked, oceanRuns>>

\* The interval timer fires, lines 597-627.  In mock mode
\* broadcastRealtimeData() runs to its end; else it awaits
\* queryRealtimeData() of the first sensor.
OceanTick ==
    /\ Len(oceanRuns) < MaxOceanTicks
    /\ IF oceanMode = "mock"
       THEN /\ oceanRuns' = Append(oceanRuns, Len(SensorKeys) + 1)
            /\ oceanSent' =
                    RealtimeSends(SensorKeys[1], GenerateMockReading(SensorKeys[1]))
                    \o RealtimeSends(SensorKeys[2], GenerateMockReading(SensorKeys[2]))
       ELSE /\ oceanRuns' = Append(oceanRuns, 1)
            /\ oceanSent' = <<>>
    /\ UNCHANGED <<oceanMode, oceanClients, oceanAsked>>

\* queryRealtimeData() of run r returns: the reading is sent and the query
\* of the next sensor is awaited
OceanReading(r, sample, fix) ==
    /\ r \in 1..Len(oceanRuns)
    /\ oceanRuns[r] <= Len(SensorKeys)
    /\ oceanRuns' = [oceanRuns EXCEPT ![r] = @ + 1]
    /\ oceanSent' = RealtimeSends(SensorKeys[oceanRuns[r]],
                        QueryRealtimeData(SensorKeys[oceanRuns[r]], sample, fix))
    /\ UNCHANGED <<oceanMode, oceanClients, oceanAsked>>

\* A query of queryRealtimeData() of run r fails, lines 240-242: the error
\* is logged, the reading is null and the next sensor is queried
OceanQueryError(r) ==
    /\ r \in 1..Len(oceanRuns)
    /\ oceanRuns[r] <= Len(SensorKeys)
    /\ oceanRuns' = [oceanRuns EXCEPT ![r] = @ + 1]
    /\ oceanSent' = <<[kind |-> "error", to |-> {}]>>
    /\ UNCHANGED <<oceanMode, oceanClients, oceanAsked>>

\* The server in either mode
InitOcean ==
    /\ TracklineInit
    /\ HistIdle
    /\ PlanIdle
    /\ RovIdle
    /\ LiveIdle
    /\ oceanMode \in {"mock", "influxdb"}
    /\ oceanClients = [c \in OceanClientIds |-> NotConnected]
    /\ oceanAsked = [c \in OceanClientIds |-> NeverSubscribed]
    /\ oceanRuns = <<>>
    /\ oceanSent = <<>>
    /\ UpStarted
    /\ FieldIdle
    /\ PosIdle

NextOcean ==
    \/ /\ \E c \in OceanClientIds : OceanConnect(c)
       /\ UNCHANGED <<trackVars, histVars, planVars, rovVars, liveVars, upVars, fieldVars, posVars>>
    \/ /\ \E c \in OceanClientIds, sensors \in SubscribeRequests : OceanSubscribe(c, sensors)
       /\ UNCHANGED <<trackVars, histVars, planVars, rovVars, liveVars, upVars, fieldVars, posVars>>
    \/ /\ \E c \in OceanClientIds, sensorType \in RequestedSensors :
             OceanHistorical(c, sensorType)
       /\ UNCHANGED <<trackVars, histVars, planVars, rovVars, liveVars, upVars, fieldVars, posVars>>
    \/ /\ \E c \in OceanClientIds : OceanClose(c)
       /\ UNCHANGED <<trackVars, histVars, planVars, rovVars, liveVars, upVars, fieldVars, posVars>>
    \/ /\ OceanTick
       /\ UNCHANGED <<trackVars, histVars, planVars, rovVars, liveVars, upVars, fieldVars, posVars>>
    \/ /\ \E r \in 1..MaxOceanTicks, sample \in LatestSamples, fix \in LatestFixes :
             OceanReading(r, sample, fix)
       /\ UNCHANGED <<trackVars, histVars, planVars, rovVars, liveVars, upVars, fieldVars, posVars>>
    \/ /\ \E r \in 1..MaxOceanTicks : OceanQueryError(r)
       /\ UNCHANGED <<trackVars, histVars, planVars, rovVars, liveVars, upVars, fieldVars, posVars>>

SpecOcean == InitOcean /\ [][NextOcean]_vars

----------------------------------------------------------------------------
\* Claims on the realtime feed of the oceanographic server

\* The realtime messages of the latest step
Realtime == {i \in 1..Len(oceanSent) : oceanSent[i].kind = "realtime"}

\* C24: in InfluxDB mode every realtime reading carries the position of a
\* fix whose time is within the tolerance of the sample's time.
C24_FixWithinTolerance ==
    \A i \in Realtime :
        oceanSent[i].data.fixTime # <<>> =>
            Abs(oceanSent[i].data.timestamp - oceanSent[i].data.fixTime[1]) <= Tolerance

\* C25: a realtime message for sensor s goes to a client whose last subscribe
\* message had a sensor list only if s is in the list, and it goes to every
\* open client that has never subscribed.
C25_SubscriptionFilter ==
    \A i \in Realtime :
        /\ oceanSent[i].to \subseteq OpenOceanClients
        /\ \A c \in oceanSent[i].to :
              oceanAsked[c].subscribed /\ oceanAsked[c].sensors # <<>>
                  => oceanSent[i].sensor \in oceanAsked[c].sensors[1]
        /\ \A c \in OpenOceanClients : ~oceanAsked[c].subscribed => c \in oceanSent[i].to

\* A tick has sent the readings of both sensors: both went to a client that
\* never subscribed, one of them went to a client that subscribed with the
\* list of that sensor alone.
C25_Witness ==
    /\ Cardinality(Realtime) = 2
    /\ \E c, e \in OpenOceanClients :
          /\ oceanAsked[c] = [subscribed |-> TRUE, sensors |-> <<{"salinity"}>>]
          /\ ~oceanAsked[e].subscribed
          /\ \A i \in Realtime :
                /\ e \in oceanSent[i].to
                /\ c \in oceanSent[i].to <=> oceanSent[i].sensor = "salinity"

\* C34: a historical request, whatever sensor it names, is answered with
\* exactly one message on its connection.
C34_OneAnswerPerHistorical ==
    \A i \in 1..Len(oceanSent) :
        oceanSent[i].kind = "requested" =>
            Cardinality({j \in 1..Len(oceanSent) :
                            /\ oceanSent[j].kind = "historical"
                            /\ oceanSent[j].to = {oceanSent[i].from}}) = 1

----------------------------------------------------------------------------
\* The upstream ship-GPS client, connectToShipGPS:
\* src/oceanographic-server/server.js lines 484-518 and src/unnamed/part_003
\* lines 204-235.  Line numbers are those of the oceanographic server.

UpServers == {"oceanographic", "multibeam"}

\* The position messages of the ship-GPS server, as the client parses them
UpPositions == [lat : 0..2, lon : 0..2]

\* The sockets that are not closed
UpLive == {i \in 1..Len(upstream) : upstream[i] # "closed"}

\* 'open', lines 488-490
UpOpen(i) ==
    /\ i \in 1..Len(upstream)
    /\ upstream[i] = "connecting"
    /\ upstream' = [upstream EXCEPT ![i] = "open"]
    /\ UNCHANGED <<upServer, upTimers, currentShipPosition>>

\* 'message', lines 492-501: a position replaces currentShipPosition
UpMessage(i, position) ==
    /\ i \in 1..Len(upstream)
    /\ upstream[i] = "open"
    /\ currentShipPosition' = IF Truthy(position.lat) /\ Truthy(position.lon)
                              THEN <<position>>
                              ELSE currentShipPosition
    /\ UNCHANGED <<upServer, upstream, upTimers>>

\* 'error', lines 503-505: the error is logged; the socket's close event
\* follows
UpSocketErrorReconnects(i) ==
    /\ i \in 1..Len(upstream)
    /\ upstream[i] \in {"connecting", "open"}
    /\ upstream' = [upstream EXCEPT ![i] = "errored"]
    /\ upTimers' = upTimers + 1
    /\ UNCHANGED <<upServer, currentShipPosition>>
UpSocketError(i) ==
    /\ i \in 1..Len(upstream)
    /\ upstream[i] \in {"connecting", "open"}
    /\ upstream' = [upstream EXCEPT ![i] = "errored"]
    /\ UNCHANGED <<upServer, upTimers, currentShipPosition>>

\* 'close', lines 507-510: setTimeout(connectToShipGPS, 5000)
UpClose(i) ==
    /\ i \in 1..Len(upstream)
    /\ upstream[i] # "closed"
    /\ upstream' = [upstream EXCEPT ![i] = "closed"]
    /\ upTimers' = upTimers + 1
    /\ UNCHANGED <<upServer, currentShipPosition>>

\* A reconnect timer fires: connectToShipGPS(), lines 484-486
UpReconnect ==
    /\ upTimers > 0
    /\ Len(upstream) < MaxUpAttempts
    /\ upTimers' = upTimers - 1
    /\ upstream' = Append(upstream, "connecting")
    /\ UNCHANGED <<upServer, currentShipPosition>>

\* Either server, after its first call of connectToShipGPS()
InitUpstream ==
    /\ TracklineInit
    /\ HistIdle
    /\ PlanIdle
    /\ RovIdle
    /\ LiveIdle
    /\ OceanIdle
    /\ upServer \in UpServers
    /\ upstream = <<"connecting">>
    /\ upTimers = 0
    /\ currentShipPosition = <<>>
    /\ FieldIdle
    /\ PosIdle

UpFrame == UNCHANGED <<trackVars, histVars, planVars, rovVars, liveVars, oceanVars, fieldVars, posVars>>

NextUpstream ==
    \/ /\ \E i \in 1..MaxUpAttempts : UpOpen(i)
       /\ UpFrame
    \/ /\ \E i \in 1..MaxUpAttempts, position \in UpPositions : UpMessage(i, position)
       /\ UpFrame
    \/ /\ \E i \in 1..MaxUpAttempts : UpSocketError(i)
       /\ UpFrame
    \/ /\ \E i \in 1..MaxUpAttempts : UpClose(i)
       /\ UpFrame
    \/ /\ UpReconnect
       /\ UpFrame

\* A timer that was set fires (after 5 s), and a socket that had an error
\* closes
SpecUpstream ==
    /\ InitUpstream
    /\ [][NextUpstream]_vars
    /\ WF_vars(UpReconnect /\ UpFrame)
    /\ WF_vars((\E i \in DOMAIN upstream : upstream[i] = "errored" /\ UpClose(i)) /\ UpFrame)

----------------------------------------------------------------------------
\* Claims on the upstream ship-GPS client

\* C38: there is never more than one upstream socket or pending reconnect
\* timer, and after the close of a socket (but the last one of the model) a
\* new connection attempt follows.
C38_OneUpstreamAndReconnect ==
    /\ [](Cardinality(UpLive) + upTimers <= 1)
    /\ \A i \in 1..(MaxUpAttempts - 1) :
          (Len(upstream) >= i /\ upstream[i] = "closed") ~> (Len(upstream) > i)

\* The third socket is open, the first two have closed, and no reconnect
\* timer is pending.
C38_Witness ==
    /\ Len(upstream) = 3
    /\ upstream[1] = "closed" /\ upstream[2] = "closed" /\ upstream[3] = "open"
    /\ upTimers = 0

----------------------------------------------------------------------------
\* queryShipGPS (lines 39-88) and queryHistoricalShipPosition (lines 138-188)
\* of src/gps-server/server-influxdb.js: the query keeps, for every field,
\* its last (first) row of the range; next() is called once per row and
\* complete() builds the position.  The ROV queries (lines 91-136, 191-236)
\* have the same structure.

\* The results of the query: at most one row per field, each with the time
\* of that field's own last (first) sample, in the order the store delivers
\* the tables
FieldResults ==
    {rows \in UNION {[1..n -> [field : PositionFields, time : 1..MaxRowTime, value : {1}]] :
                        n \in 0..Cardinality(PositionFields)} :
        \A i, j \in 1..Len(rows) : i # j => rows[i].field # rows[j].field}

\* next(row, tableMeta), lines 61-65
FieldNext ==
    /\ fieldRows # <<>>
    /\ LET o == Head(fieldRows)
       IN  fieldResult' = [values |-> [fieldResult.values EXCEPT ![o.field] = <<o.value>>],
                           times |-> [fieldResult.times EXCEPT ![o.field] = <<o.time>>],
                           timestamp |-> <<o.time>>]
    /\ fieldRows' = Tail(fieldRows)
    /\ UNCHANGED fieldMsg

\* complete(), lines 70-85: the position, or null.  latTime and lonTime are
\* not part of the message: they record the rows the coordinates are from.
FieldComplete ==
    /\ fieldRows = <<>>
    /\ fieldMsg = <<>>
    /\ LET lat == fieldResult.values["Seapath_Latitude"]
           lon == fieldResult.values["Seapath_Longitude"]
       IN  fieldMsg' =
             IF lat # <<>> /\ lon # <<>> /\ Truthy(lat[1]) /\ Truthy(lon[1])
             THEN <<[type |-> "position", timestamp |-> fieldResult.timestamp[1],
                     lat |-> lat[1], lon |-> lon[1],
                     latTime |-> fieldResult.times["Seapath_Latitude"][1],
                     lonTime |-> fieldResult.times["Seapath_Longitude"][1]]>>
             ELSE <<[type |-> "null"]>>
    /\ UNCHANGED <<fieldRows, fieldResult>>

\* One call of the query function, with any result of the query
InitFields ==
    /\ TracklineInit
    /\ HistIdle
    /\ PlanIdle
    /\ RovIdle
    /\ LiveIdle
    /\ OceanIdle
    /\ UpStarted
    /\ fieldRows \in FieldResults
    /\ fieldResult = EmptyResult
    /\ fieldMsg = <<>>
    /\ PosIdle

NextFields ==
    \/ /\ FieldNext
       /\ UNCHANGED <<trackVars, histVars, planVars, rovVars, liveVars, oceanVars, upVars, posVars>>
    \/ /\ FieldComplete
       /\ UNCHANGED <<trackVars, histVars, planVars, rovVars, liveVars, oceanVars, upVars, posVars>>

SpecFields == InitFields /\ [][NextFields]_vars

\* C39: in every position message the latitude and the longitude are of one
\* instant and the message's timestamp is that instant.
C39_LatLonOfOneInstant ==
    fieldMsg # <<>> /\ fieldMsg[1].type = "position" =>
        /\ fieldMsg[1].latTime = fieldMsg[1].lonTime
        /\ fieldMsg[1].timestamp = fieldMsg[1].latTime

----------------------------------------------------------------------------
\* The ship socket of src/gps-server/server-influxdb.js as a whole: the
\* message handler of lines 394-445 (queryTrackline as above, and
\* queryHistorical) beside the live feed of lines 358-369.

\* What a historical position query resolves with: null, or a position
PositionAnswers == {<<>>, <<[lat |-> 1, lon |-> 1]>>}

\* ws.on('message') with a queryHistorical message, lines 399-401: up to the
\* await of queryHistoricalShipPosition
OnQueryHistorical ==
    /\ readyState = "OPEN"
    /\ posQuery.pc = "idle"
    /\ posQuery' = [posQuery EXCEPT !.pc = "awaitShip"]

\* The ship query resolved, lines 401-402: queryHistoricalROVPosition is awaited
PosShipDone(shipData) ==
    /\ posQuery.pc = "awaitShip"
    /\ posQuery' = [pc |-> "awaitRov", ship |-> shipData, sent |-> posQuery.sent]

\* The ROV query resolved, lines 402-411: the historicalData message is sent
PosRovDone(rovData) ==
    /\ posQuery.pc = "awaitRov"
    /\ posQuery' = [pc |-> "done", ship |-> posQuery.ship,
                    sent |-> Append(posQuery.sent,
                                [type |-> "historicalData", ship |-> posQuery.ship,
                                 rov |-> rovData])]

\* Either query rejected, lines 438-444: the error message is sent
PosQueryError ==
    /\ posQuery.pc \in {"awaitShip", "awaitRov"}
    /\ posQuery' = [pc |-> "failed",
                    sent |-> Append(posQuery.sent, [type |-> "error",
                                                    message |-> "query failed"])]

\* The message handler assigns none of latestGpsDataShip, latestGpsDataROV,
\* clientsShip, clientsROV (lines 394-445 and 239-336)
HandlerFrameClearsLatest ==
    /\ latestGpsDataShip' = <<>>
    /\ UNCHANGED <<clientsShip, liveTicks, liveQueries, liveSent, liveAtConnect>>
HandlerFrame == UNCHANGED liveVars

\* What the events of the ship socket leave alone
ElseFrame == UNCHANGED <<histVars, planVars, rovVars, oceanVars, upVars, fieldVars>>

\* The ship socket with its requests and, beside them, the live feed with
\* one client and one firing of the timer; range queries return no row or
\* one row.
NextShip ==
    \/ /\ \E r \in Requests, vehicles \in VehicleLists, startTime \in Times, endTime \in Times :
             startTime < endTime /\ OnMessage(r, vehicles, startTime, endTime)
       /\ HandlerFrame /\ ElseFrame /\ UNCHANGED posVars
    \/ /\ \E r \in Requests, n \in {0, 1} : QueryComplete(r, n)
       /\ HandlerFrame /\ ElseFrame /\ UNCHANGED posVars
    \/ /\ \E r \in Requests : QueryError(r)
       /\ HandlerFrame /\ ElseFrame /\ UNCHANGED posVars
    \/ /\ DelayElapsed
       /\ HandlerFrame /\ ElseFrame /\ UNCHANGED posVars
    \/ /\ OnQueryHistorical
       /\ HandlerFrame /\ ElseFrame /\ UNCHANGED trackVars
    \/ /\ \E shipData \in PositionAnswers : PosShipDone(shipData)
       /\ HandlerFrame /\ ElseFrame /\ UNCHANGED trackVars
    \/ /\ \E rovData \in PositionAnswers : PosRovDone(rovData)
       /\ HandlerFrame /\ ElseFrame /\ UNCHANGED trackVars
    \/ /\ PosQueryError
       /\ HandlerFrame /\ ElseFrame /\ UNCHANGED trackVars
    \/ /\ LiveConnect(1)
       /\ ElseFrame /\ UNCHANGED <<trackVars, posVars>>
    \/ /\ LiveClose(1)
       /\ ElseFrame /\ UNCHANGED <<trackVars, posVars>>
    \/ /\ liveTicks = 0 /\ LiveTick
       /\ ElseFrame /\ UNCHANGED <<trackVars, posVars>>
    \/ /\ \E result \in ShipResults : LiveComplete(1, result)
       /\ ElseFrame /\ UNCHANGED <<trackVars, posVars>>
    \/ /\ LiveError(1)
       /\ ElseFrame /\ UNCHANGED <<trackVars, posVars>>

SpecShip == Init /\ [][NextShip]_vars

----------------------------------------------------------------------------
\* Claims on the ship socket as a whole

\* The requests whose range query has not answered
Stalled == {r \in Requests : task[r].pc = "awaitQuery"}

\* C31: while the range query of a request has not answered, nothing has
\* been sent for that query, nothing more is sent for the request, and only
\* the answer moves the request on (there is no timeout); the queries of the
\* other requests can complete and the live feed can poll and broadcast.
C31_StallIsLocal ==
    /\ [](\A r \in Stalled :
            /\ \A x \in 1..Len(sent) : ~(sent[x].req = r /\ sent[x].vidx = task[r].vidx)
            /\ \A q \in Stalled \ {r} : ENABLED (\E n \in {0, 1} : QueryComplete(q, n))
            /\ liveTicks < MaxLiveTicks => ENABLED LiveTick
            /\ \A q \in 1..Len(liveQueries) :
                  liveQueries[q].state = "pending" =>
                      ENABLED (\E result \in ShipResults : LiveComplete(q, result)))
    /\ [][\A r \in Stalled :
             /\ task'[r] # task[r] => returned'[<<r, task[r].vidx>>] # Pending
             /\ task'[r] = task[r] =>
                   SelectSeq(sent', LAMBDA m : m.req = r) = SelectSeq(sent, LAMBDA m : m.req = r)]_vars

\* The query of the first request has not answered; the second request,
\* received after it, is done, and a position polled meanwhile was
\* broadcast to a client.
C31_Witness ==
    /\ task[1].pc = "awaitQuery"
    /\ task[2].pc = "done"
    /\ \E x \in 1..Len(sent) : sent[x].req = 2 /\ sent[x].type = "tracklineComplete"
    /\ \E i \in Broadcasts : liveSent[i].to # {}

\* C32: a step of the handler of a queryTrackline or queryHistorical
\* message, successful or failed, leaves the cached position and the client
\* set as they are.
C32_HandlerLeavesLivePath ==
    [][<<reqs, task, sent, queries, timers, returned, posQuery>>'
          # <<reqs, task, sent, queries, timers, returned, posQuery>>
       => UNCHANGED <<latestGpsDataShip, clientsShip>>]_vars

\* With a position cached and a client connected, a trackline request has
\* been served, another has failed, and a queryHistorical request has been
\* answered; the cache and the client are still there.
C32_Witness ==
    /\ latestGpsDataShip # <<>>
    /\ clientsShip[1] = "open"
    /\ \E x \in 1..Len(sent) : sent[x].type = "tracklineComplete"
    /\ \E x \in 1..Len(sent) : sent[x].type = "error"
    /\ posQuery.pc = "done"

====
